---------------------------- MODULE Spec2Model ----------------------------
(***************************************************************************)
(* A model of pdfmd's transform + render pipeline (transform.py,           *)
(* render.py).  Text is a sequence of characters; a character is a string. *)
(* Glyphs outside ASCII carry a name: "BULLET" is U+2022, "WBULLET" U+25CB,*)
(* "SBULLET" U+25E6, "MIDDOT" U+00B7, "ENDASH" U+2013, "EMDASH" U+2014,    *)
(* "BACKSLASH" the backslash.                                              *)
(* Font sizes are whole numbers, 40 to the point (10 pt is 400), and a     *)
(* ratio is held in tenths (1.3 is 13), so medians and the comparisons     *)
(* with 1.6 x and ratio x are exact.                                       *)
(***************************************************************************)
EXTENDS Integers, Sequences, FiniteSets, TLC

VARIABLES pc, pages, opts, pages_t, header, footer, body_sizes,
          md_lines, page_i, md, calls, arg, res

vars == <<pc, pages, opts, pages_t, header, footer, body_sizes,
          md_lines, page_i, md, calls, arg, res>>

\* Python's None: a value that no text equals
None == <<"None">>

NL == "\n"
SP == " "

----------------------------------------------------------------------------
(* Character classes, as the re module and str methods see them *)

\* str.isspace / \s
IsSpace(c) == c \in {SP, NL}

\* \d
IsDigit(c) == c \in {"0", "1", "2"}

\* str.isupper on one letter
IsUpper(c) == c \in {"A", "B", "P"}

IsLower(c) == c \in {"a", "b", "c", "d", "e", "g", "x"}

\* str.isalpha, [A-Za-z]
IsAlpha(c) == IsUpper(c) \/ IsLower(c)

\* str.isalnum
IsAlnum(c) == IsAlpha(c) \/ IsDigit(c)

----------------------------------------------------------------------------
(* str helpers *)

\* index of the first character at or after i that is not whitespace (Len+1 if none)
RECURSIVE SkipSpace(_, _)
SkipSpace(s, i) ==
    IF i > Len(s) THEN Len(s) + 1
    ELSE IF IsSpace(s[i]) THEN SkipSpace(s, i + 1) ELSE i

\* index of the last character at or before i that is not whitespace (0 if none)
RECURSIVE SkipSpaceBack(_, _)
SkipSpaceBack(s, i) ==
    IF i < 1 THEN 0
    ELSE IF IsSpace(s[i]) THEN SkipSpaceBack(s, i - 1) ELSE i

\* str.lstrip()
LStrip(s) == SubSeq(s, SkipSpace(s, 1), Len(s))

\* str.rstrip()
RStrip(s) == SubSeq(s, 1, SkipSpaceBack(s, Len(s)))

\* str.strip()
Strip(s) == LStrip(RStrip(s))

\* sep.join(parts)
RECURSIVE Join(_, _)
Join(parts, sep) ==
    IF parts = <<>> THEN <<>>
    ELSE IF Len(parts) = 1 THEN parts[1]
    ELSE parts[1] \o sep \o Join(Tail(parts), sep)

\* "".join(parts)
Concat(parts) == Join(parts, <<>>)

\* str.splitlines(): split at every "\n"; no empty last piece
RECURSIVE SplitLinesFrom(_, _, _)
SplitLinesFrom(s, i, cur) ==
    IF i > Len(s) THEN (IF cur = <<>> THEN <<>> ELSE <<cur>>)
    ELSE IF s[i] = NL THEN <<cur>> \o SplitLinesFrom(s, i + 1, <<>>)
    ELSE SplitLinesFrom(s, i + 1, Append(cur, s[i]))

SplitLines(s) == SplitLinesFrom(s, 1, <<>>)

\* str.startswith for a one-character prefix
StartsWith(s, c) == Len(s) >= 1 /\ s[1] = c

\* all sequences over S of length at most n
SeqsUpTo(S, n) == UNION {[1..k -> S] : k \in 0..n}

----------------------------------------------------------------------------
(* render.py: _fix_hyphenation *)

\* re.sub(r"-\n(\s*)", r"\1", text): the hyphen and the newline go, the
\* whitespace run after them stays, scanning resumes after that run
RECURSIVE FixHyphFrom(_, _)
FixHyphFrom(s, i) ==
    IF i > Len(s) THEN <<>>
    ELSE IF s[i] = "-" /\ i + 1 <= Len(s) /\ s[i + 1] = NL
         THEN LET e == SkipSpace(s, i + 2)
              IN  SubSeq(s, i + 2, e - 1) \o FixHyphFrom(s, e)
         ELSE <<s[i]>> \o FixHyphFrom(s, i + 1)

\* a plausible slip: the captured whitespace is dropped with the match
FixHyphDropWs(text) ==
    LET RECURSIVE F(_)
        F(i) == IF i > Len(text) THEN <<>>
                ELSE IF text[i] = "-" /\ i + 1 <= Len(text) /\ text[i + 1] = NL
                     THEN F(SkipSpace(text, i + 2))
                     ELSE <<text[i]>> \o F(i + 1)
    IN  F(1)

_fix_hyphenation(text) == FixHyphFrom(text, 1)


----------------------------------------------------------------------------
(* The layout model: Span, Line, Block, PageText as records *)

Span(t, sz) == [text |-> t, size |-> sz, bold |-> FALSE, italic |-> FALSE]

Line(sps) == [spans |-> sps]

Block(lns) == [lines |-> lns]

PageText(blks) == [blocks |-> blks]

\* insertion sort, ascending: sorted(sizes)
RECURSIVE Insert(_, _)
Insert(x, s) ==
    IF s = <<>> THEN <<x>>
    ELSE IF x <= s[1] THEN <<x>> \o s ELSE <<s[1]>> \o Insert(x, Tail(s))

RECURSIVE Sorted(_)
Sorted(s) == IF s = <<>> THEN <<>> ELSE Insert(s[1], Sorted(Tail(s)))

\* the median of a non-empty list; sizes are multiples of 4, so the mean of
\* the two middle values is a whole number
Median(sizes) ==
    LET ss  == Sorted(sizes)
        mid == Len(ss) \div 2
    IN  IF Len(ss) % 2 = 1 THEN ss[mid + 1] ELSE (ss[mid] + ss[mid + 1]) \div 2

\* the elements s[i] with keep[i] true, in order
RECURSIVE SelectFlagged(_, _, _)
SelectFlagged(s, keep, i) ==
    IF i > Len(s) THEN <<>>
    ELSE (IF keep[i] THEN <<s[i]>> ELSE <<>>) \o SelectFlagged(s, keep, i + 1)

----------------------------------------------------------------------------
(* transform.py: line helpers *)

_line_text(line) ==
    Strip(Concat([k \in 1..Len(line.spans) |-> line.spans[k].text]))

\* every line of the page, blocks in order
PageLines(page) ==
    Concat([b \in 1..Len(page.blocks) |-> page.blocks[b].lines])

\* the texts of the page's non-blank lines, in reading order
NonBlankTexts(page) ==
    LET ls == PageLines(page)
        ts == [k \in 1..Len(ls) |-> _line_text(ls[k])]
    IN  SelectSeq(ts, LAMBDA t : t # <<>>)

_first_nonblank_line_text(page) ==
    LET ts == NonBlankTexts(page) IN IF ts = <<>> THEN <<>> ELSE ts[1]

_last_nonblank_line_text(page) ==
    LET ts == NonBlankTexts(page) IN IF ts = <<>> THEN <<>> ELSE ts[Len(ts)]

----------------------------------------------------------------------------
(* transform.py: detect_repeating_edges *)

\* how often x occurs in s
RECURSIVE CountOf(_, _)
CountOf(x, s) ==
    IF s = <<>> THEN 0
    ELSE (IF s[1] = x THEN 1 ELSE 0) + CountOf(x, Tail(s))

\* the Counter's keys, in the order they were first inserted
RECURSIVE KeysInOrder(_, _)
KeysInOrder(s, seen) ==
    IF s = <<>> THEN <<>>
    ELSE IF s[1] \in seen THEN KeysInOrder(Tail(s), seen)
    ELSE <<s[1]>> \o KeysInOrder(Tail(s), seen \cup {s[1]})

\* Counter.most_common(): keys by descending count; sorted() is stable, so
\* keys with equal counts stay in insertion order
RECURSIVE MostCommonFrom(_, _)
MostCommonFrom(keys, s) ==
    IF keys = <<>> THEN <<>>
    ELSE LET best == CHOOSE i \in 1..Len(keys) :
                       /\ \A j \in 1..Len(keys) :
                            CountOf(keys[j], s) <= CountOf(keys[i], s)
                       /\ \A j \in 1..(i - 1) :
                            CountOf(keys[j], s) < CountOf(keys[i], s)
             rest == SelectFlagged(keys, [j \in 1..Len(keys) |-> j # best], 1)
         IN  <<keys[best]>> \o MostCommonFrom(rest, s)

\* a plausible slip: equal counts ordered by who reached the count first,
\* i.e. keys ranked by the page at which their last occurrence was counted
RECURSIVE MostCommonFirstReached(_, _)
MostCommonFirstReached(keys, s) ==
    IF keys = <<>> THEN <<>>
    ELSE LET LastAt(k) == CHOOSE i \in 1..Len(s) :
                            s[i] = k /\ \A j \in (i + 1)..Len(s) : s[j] # k
             best == CHOOSE i \in 1..Len(keys) :
                       \A j \in 1..Len(keys) : j # i =>
                          \/ CountOf(keys[j], s) < CountOf(keys[i], s)
                          \/ /\ CountOf(keys[j], s) = CountOf(keys[i], s)
                             /\ LastAt(keys[i]) < LastAt(keys[j])
             rest == SelectFlagged(keys, [j \in 1..Len(keys) |-> j # best], 1)
         IN  <<keys[best]>> \o MostCommonFirstReached(rest, s)

\* the slip above, as most_common() would then read
MostCommonTiesByReach(cands) ==
    MostCommonFirstReached(KeysInOrder(cands, {}), cands)

MostCommon(cands) == MostCommonFrom(KeysInOrder(cands, {}), cands)

\* next((h for h, c in counter.most_common() if c >= min_pages and h), None)
FirstFrequent(cands, min_pages) ==
    LET mc   == MostCommon(cands)
        hits == SelectSeq(mc, LAMBDA h : CountOf(h, cands) >= min_pages /\ h # <<>>)
    IN  IF hits = <<>> THEN None ELSE hits[1]

\* the head (tail) candidates counted while scanning the pages in order
HeadCandidates(ps) ==
    SelectSeq([k \in 1..Len(ps) |-> _first_nonblank_line_text(ps[k])],
              LAMBDA h : h # <<>>)

TailCandidates(ps) ==
    SelectSeq([k \in 1..Len(ps) |-> _last_nonblank_line_text(ps[k])],
              LAMBDA t : t # <<>>)

\* a plausible slip: one repeat too few is accepted
DetectEdgesLowThreshold(ps, min_pages) ==
    <<FirstFrequent(HeadCandidates(ps), min_pages - 1),
      FirstFrequent(TailCandidates(ps), min_pages - 1)>>

detect_repeating_edges(ps, min_pages) ==
    <<FirstFrequent(HeadCandidates(ps), min_pages),
      FirstFrequent(TailCandidates(ps), min_pages)>>

----------------------------------------------------------------------------
(* transform.py: footer noise and remove_header_footer *)

\* [-–—]
IsDashLike(c) == c \in {"-", "ENDASH", "EMDASH"}

RECURSIVE SkipDigits(_, _)
SkipDigits(s, i) ==
    IF i > Len(s) THEN Len(s) + 1
    ELSE IF IsDigit(s[i]) THEN SkipDigits(s, i + 1) ELSE i

\* str.lower() on one character
ToLower(c) ==
    CASE c = "A" -> "a" [] c = "B" -> "b" [] c = "P" -> "p" [] OTHER -> c

\* _FOOTER_DASH_PATTERN  ^[-–—]\s*[-–—]?\s*\d*\s*$  on a stripped text
MatchesFooterDash(s) ==
    /\ Len(s) >= 1
    /\ IsDashLike(s[1])
    /\ LET p1 == SkipSpace(s, 2)
           p2 == IF p1 <= Len(s) /\ IsDashLike(s[p1]) THEN p1 + 1 ELSE p1
           p3 == SkipSpace(s, p2)
           p4 == SkipDigits(s, p3)
       IN  SkipSpace(s, p4) = Len(s) + 1

\* _FOOTER_PAGENUM_PATTERN  ^\d+\s*$
MatchesPageNum(s) ==
    /\ Len(s) >= 1
    /\ IsDigit(s[1])
    /\ SkipSpace(s, SkipDigits(s, 1)) = Len(s) + 1

\* _FOOTER_PAGE_LABEL_PATTERN  ^Page\s+\d+\s*$  with re.IGNORECASE
MatchesPageLabel(s) ==
    /\ Len(s) >= 6
    /\ [k \in 1..4 |-> ToLower(s[k])] = <<"p", "a", "g", "e">>
    /\ IsSpace(s[5])
    /\ LET p1 == SkipSpace(s, 5)
           p2 == SkipDigits(s, p1)
       IN  p1 <= Len(s) /\ p2 > p1 /\ SkipSpace(s, p2) = Len(s) + 1

\* transform._is_footer_noise
T_is_footer_noise(text) ==
    LET s == Strip(text)
    IN  /\ s # <<>>
        /\ MatchesFooterDash(s) \/ MatchesPageNum(s) \/ MatchesPageLabel(s)

\* `if header and text == header`
IsEdge(text, edge) == edge # None /\ edge # <<>> /\ text = edge

\* a plausible slip: the pattern test is applied in every block
KeptLinesAnyBlock(blk, blk_idx, n_blocks, hdr, ftr) ==
    LET num_lines == Len(blk.lines)
        Keep(ln_idx) ==
            LET text           == _line_text(blk.lines[ln_idx])
                is_near_bottom == ln_idx > num_lines - 3
            IN  /\ ~IsEdge(text, hdr)
                /\ ~IsEdge(text, ftr)
                /\ ~(is_near_bottom /\ T_is_footer_noise(text))
    IN  SelectFlagged(blk.lines, [i \in 1..num_lines |-> Keep(i)], 1)

\* the lines of block blk_idx (of n_blocks) that remove_header_footer keeps
KeptLines(blk, blk_idx, n_blocks, hdr, ftr) ==
    LET num_lines == Len(blk.lines)
        Keep(ln_idx) ==
            LET text           == _line_text(blk.lines[ln_idx])
                is_last_block  == blk_idx = n_blocks
                is_near_bottom == ln_idx > num_lines - 3
            IN  /\ ~IsEdge(text, hdr)
                /\ ~IsEdge(text, ftr)
                /\ ~(is_last_block /\ is_near_bottom /\ T_is_footer_noise(text))
    IN  SelectFlagged(blk.lines, [i \in 1..num_lines |-> Keep(i)], 1)

RemoveInPage(p, hdr, ftr) ==
    LET n    == Len(p.blocks)
        kept == [b \in 1..n |-> Block(KeptLines(p.blocks[b], b, n, hdr, ftr))]
    IN  PageText(SelectSeq(kept, LAMBDA blk : blk.lines # <<>>))

\* a plausible slip: the header is compared but the footer is not
RemoveHeaderOnly(ps, hdr, ftr) ==
    [k \in 1..Len(ps) |-> RemoveInPage(ps[k], hdr, None)]

\* a plausible slip: a page left without blocks is not appended
RemoveDroppingEmptyPages(ps, hdr, ftr) ==
    SelectSeq([k \in 1..Len(ps) |-> RemoveInPage(ps[k], hdr, ftr)],
              LAMBDA p : p.blocks # <<>>)

remove_header_footer(ps, hdr, ftr) ==
    [k \in 1..Len(ps) |-> RemoveInPage(ps[k], hdr, ftr)]

----------------------------------------------------------------------------
(* transform.py: strip_drop_caps_in_page *)

\* the positive sizes of the spans after the first
RestSizes(spans) ==
    LET rest == Tail(spans)
    IN  SelectSeq([k \in 1..Len(rest) |-> rest[k].size], LAMBDA z : z > 0)

\* a plausible slip: the comparison is strict
AboveDropCapRatio(size, median_size) == 10 * size > 16 * median_size

\* first.size >= median_size * 1.6, in whole numbers
AtLeastDropCapRatio(size, median_size) == 10 * size >= 16 * median_size

\* a line whose first span is a decorative initial
IsDropCapLine(ln) ==
    LET spans == ln.spans
        core  == IF spans = <<>> THEN <<>> ELSE spans[1].text
    IN  /\ spans # <<>>
        /\ core # <<>>
        /\ Len(Strip(core)) = 1
        /\ IsAlpha(Strip(core)[1])
        /\ Tail(spans) # <<>>
        /\ RestSizes(spans) # <<>>
        /\ AtLeastDropCapRatio(spans[1].size, Median(RestSizes(spans)))

\* the loop over a block's lines, with its `modified` flag
RECURSIVE StripLines(_, _, _)
StripLines(lines, i, modified) ==
    IF i > Len(lines) THEN <<>>
    ELSE IF ~modified /\ IsDropCapLine(lines[i])
         THEN <<Line(Tail(lines[i].spans))>> \o StripLines(lines, i + 1, TRUE)
         ELSE <<lines[i]>> \o StripLines(lines, i + 1, modified)

strip_drop_caps_in_page(page) ==
    PageText([b \in 1..Len(page.blocks) |->
        Block(StripLines(page.blocks[b].lines, 1, FALSE))])

strip_drop_caps(ps) == [k \in 1..Len(ps) |-> strip_drop_caps_in_page(ps[k])]

----------------------------------------------------------------------------
(* transform.py: bullet-line merging *)

BulletGlyphs == {"BULLET", "WBULLET", "SBULLET", "MIDDOT", "-", "ENDASH", "EMDASH"}

\* _BULLET_ONLY_PATTERN  ^[glyph]\s*$  on a stripped text
IsBulletOnly(text) == Len(text) = 1 /\ text[1] \in BulletGlyphs

\* the spans of the following line, a space put before the first word
SpacedSpans(nxt_spans) ==
    IF nxt_spans # <<>> /\ ~StartsWith(nxt_spans[1].text, SP)
    THEN <<[nxt_spans[1] EXCEPT !.text = <<SP>> \o @]>> \o Tail(nxt_spans)
    ELSE nxt_spans

RECURSIVE MergeLines(_, _)
MergeLines(lines, i) ==
    IF i > Len(lines) THEN <<>>
    ELSE IF IsBulletOnly(_line_text(lines[i])) /\ i + 1 <= Len(lines)
         THEN <<Line(lines[i].spans \o SpacedSpans(lines[i + 1].spans))>>
              \o MergeLines(lines, i + 2)
         ELSE <<lines[i]>> \o MergeLines(lines, i + 1)

_merge_bullet_lines_in_page(page) ==
    PageText([b \in 1..Len(page.blocks) |->
        Block(MergeLines(page.blocks[b].lines, 1))])

merge_bullet_lines(ps) ==
    [k \in 1..Len(ps) |-> _merge_bullet_lines_in_page(ps[k])]

----------------------------------------------------------------------------
(* transform.py: estimate_body_size *)

\* the fallback body size 11.0, in the model's size unit (a point is 40)
DefaultBody == 440

\* every span of the page, in reading order
PageSpans(page) ==
    LET ls == PageLines(page)
    IN  Concat([k \in 1..Len(ls) |-> ls[k].spans])

BodySizeOf(page) ==
    LET sps   == SelectSeq(PageSpans(page),
                           LAMBDA sp : sp.size > 0 /\ Strip(sp.text) # <<>>)
        sizes == [k \in 1..Len(sps) |-> sps[k].size]
    IN  IF sizes # <<>> THEN Median(sizes) ELSE DefaultBody

estimate_body_size(ps) == [k \in 1..Len(ps) |-> BodySizeOf(ps[k])]

----------------------------------------------------------------------------
(* utils.py and models.py are not part of the analysed sources; these      *)
(* follow the specification's description of them                          *)

\* characters that Markdown gives a meaning to inside running text
MdSpecial == {"*", "_", "#"}

\* escape_markdown: a backslash goes before every Markdown-significant character
RECURSIVE escape_markdown(_)
escape_markdown(t) ==
    IF t = <<>> THEN <<>>
    ELSE (IF t[1] \in MdSpecial THEN <<"BACKSLASH", t[1]>> ELSE <<t[1]>>)
         \o escape_markdown(Tail(t))

\* normalize_punctuation: typographic punctuation becomes plain; the model's
\* texts hold none, so they come back as they are
normalize_punctuation(t) == t

\* linkify_urls: bare URLs become links; the model's texts hold none
linkify_urls(t) == t

\* Block.is_empty(): no lines, or only lines whose joined text is blank
is_empty(blk) ==
    \A k \in 1..Len(blk.lines) : _line_text(blk.lines[k]) = <<>>

----------------------------------------------------------------------------
(* transform.py: CAPS heuristics *)

Letters(t) == SelectSeq(t, IsAlpha)

\* core = re.sub(r"[^A-Za-z]+", "", s); bool(core) and core.isupper()
is_all_caps_line(t) ==
    LET core == Letters(t)
    IN  core # <<>> /\ \A k \in 1..Len(core) : IsUpper(core[k])

\* at least 0.75 of the alphabetic characters are uppercase
is_mostly_caps(t) ==
    LET letters == Letters(t)
    IN  /\ letters # <<>>
        /\ 4 * Len(SelectSeq(letters, IsUpper)) >= 3 * Len(letters)

----------------------------------------------------------------------------
(* render.py: inline helpers and span joining *)

_wrap_inline(text, bold, italic) ==
    IF Strip(text) = <<>> THEN text
    ELSE IF bold /\ italic THEN <<"*", "*", "*">> \o text \o <<"*", "*", "*">>
    ELSE IF bold THEN <<"*", "*">> \o text \o <<"*", "*">>
    ELSE IF italic THEN <<"*">> \o text \o <<"*">>
    ELSE text

\* the loop of _safe_join_texts: acc is "".join(out), prev is out[-1]
RECURSIVE SafeJoinFrom(_, _, _, _)
SafeJoinFrom(parts, i, acc, prev) ==
    IF i > Len(parts) THEN acc
    ELSE LET t == parts[i]
         IN  IF t = <<>> THEN SafeJoinFrom(parts, i + 1, acc, prev)
             ELSE IF /\ prev # <<>>
                     /\ ~IsSpace(prev[Len(prev)]) /\ ~IsSpace(t[1])
                     /\ IsAlnum(prev[Len(prev)]) /\ IsAlnum(t[1])
                  THEN SafeJoinFrom(parts, i + 1, acc \o <<SP>> \o t, <<SP>> \o t)
                  ELSE SafeJoinFrom(parts, i + 1, acc \o t, t)

_safe_join_texts(parts) ==
    IF parts = <<>> THEN <<>> ELSE SafeJoinFrom(parts, 2, parts[1], parts[1])

----------------------------------------------------------------------------
(* render.py: footer noise, list normalization, hard-break unwrapping *)

\* re.fullmatch(r"[-\s\.0-9]+", s) and s.count("-") >= 2
R_is_footer_noise(line) ==
    LET s == Strip(line)
    IN  /\ s # <<>>
        /\ \A k \in 1..Len(s) : s[k] = "-" \/ IsSpace(s[k]) \/ s[k] = "." \/ IsDigit(s[k])
        /\ Len(SelectSeq(s, LAMBDA c : c = "-")) >= 2

\* index after a prefix "<digits><. or )><whitespace run>", or 0
AfterNumberPrefix(s) ==
    LET d == SkipDigits(s, 1)
    IN  IF d > 1 /\ d + 1 <= Len(s) /\ s[d] \in {".", ")"} /\ IsSpace(s[d + 1])
        THEN SkipSpace(s, d + 1) ELSE 0

\* index after a prefix "<letter><. or )><whitespace run>", or 0
AfterLetterPrefix(s) ==
    IF Len(s) >= 3 /\ IsAlpha(s[1]) /\ s[2] \in {".", ")"} /\ IsSpace(s[3])
    THEN SkipSpace(s, 3) ELSE 0

\* a plausible slip: only the glyph is rewritten, the whitespace after it stays
NormalizeGlyphOnly(ln) ==
    LET s == LStrip(ln)
        n == AfterNumberPrefix(s)
        l == AfterLetterPrefix(s)
    IN  IF Len(s) >= 2 /\ s[1] \in BulletGlyphs /\ IsSpace(s[2])
        THEN <<"-", SP>> \o SubSeq(s, 2, Len(s))
        ELSE IF n > 0
             THEN SubSeq(s, 1, SkipDigits(s, 1) - 1) \o <<".", SP>> \o SubSeq(s, n, Len(s))
        ELSE IF l > 0 THEN <<"-", SP>> \o SubSeq(s, l, Len(s))
        ELSE Strip(ln)

_normalize_list_line(ln) ==
    LET s == LStrip(ln)
        b == IF Len(s) >= 2 /\ s[1] \in BulletGlyphs /\ IsSpace(s[2])
             THEN SkipSpace(s, 2) ELSE 0
        n == AfterNumberPrefix(s)
        l == AfterLetterPrefix(s)
    IN  IF b > 0 THEN <<"-", SP>> \o SubSeq(s, b, Len(s))
        ELSE IF n > 0
             THEN SubSeq(s, 1, SkipDigits(s, 1) - 1) \o <<".", SP>> \o SubSeq(s, n, Len(s))
        ELSE IF l > 0 THEN <<"-", SP>> \o SubSeq(s, l, Len(s))
        ELSE Strip(ln)

\* str.endswith("  ")
EndsWithTwoSpaces(line) ==
    Len(line) >= 2 /\ line[Len(line)] = SP /\ line[Len(line) - 1] = SP

\* flush(): the buffered lines become one paragraph
Flushed(out, buf) ==
    IF buf = <<>> THEN out ELSE Append(out, Strip(Join(buf, <<SP>>)))

\* the loop of _unwrap_hard_breaks over lines[i..]
RECURSIVE UnwrapFrom(_, _, _, _)
UnwrapFrom(lines, i, out, buf) ==
    IF i > Len(lines) THEN Flushed(out, buf)
    ELSE LET line == lines[i]
         IN  IF Strip(line) = <<>>
             THEN UnwrapFrom(lines, i + 1, Append(Flushed(out, buf), <<>>), <<>>)
             ELSE IF EndsWithTwoSpaces(line)
                  THEN UnwrapFrom(lines, i + 1,
                                  Flushed(out, Append(buf, RStrip(line))), <<>>)
                  ELSE UnwrapFrom(lines, i + 1, out, Append(buf, Strip(line)))

_unwrap_hard_breaks(lines) == Join(UnwrapFrom(lines, 1, <<>>, <<>>), <<NL>>)

----------------------------------------------------------------------------
(* render.py: _block_to_lines *)

\* the span texts of a line, escaped and wrapped (texts_fmt)
TextsFmt(ln) ==
    [k \in 1..Len(ln.spans) |->
        _wrap_inline(escape_markdown(ln.spans[k].text),
                     ln.spans[k].bold, ln.spans[k].italic)]

\* the span texts of a line as they are (texts_raw)
TextsRaw(ln) == [k \in 1..Len(ln.spans) |-> ln.spans[k].text]

\* the sizes of the spans that carry one (`if getattr(sp, "size", 0.0)`)
LineSizes(ln) ==
    SelectSeq([k \in 1..Len(ln.spans) |-> ln.spans[k].size], LAMBDA z : z # 0)

\* the lines of the block whose rendered text is not blank
RenderedSource(block) ==
    SelectSeq(block.lines, LAMBDA ln : Strip(_safe_join_texts(TextsFmt(ln))) # <<>>)

\* avg_line_size: the median of the per-line medians, else the body size
RepresentativeSize(block, body_size) ==
    LET src        == SelectSeq(RenderedSource(block), LAMBDA ln : LineSizes(ln) # <<>>)
        line_sizes == [k \in 1..Len(src) |-> Median(LineSizes(src[k]))]
    IN  IF line_sizes # <<>> THEN Median(line_sizes) ELSE body_size

\* re.sub(r"\s+", " ", t)
RECURSIVE CollapseSpace(_, _)
CollapseSpace(t, i) ==
    IF i > Len(t) THEN <<>>
    ELSE IF IsSpace(t[i]) THEN <<SP>> \o CollapseSpace(t, SkipSpace(t, i))
    ELSE <<t[i]>> \o CollapseSpace(t, i + 1)

\* str.strip(" -:–—")
RECURSIVE StripHeadingChars(_)
StripHeadingChars(t) ==
    LET junk == {SP, "-", ":", "ENDASH", "EMDASH"}
    IN  IF t = <<>> THEN t
        ELSE IF t[1] \in junk THEN StripHeadingChars(Tail(t))
        ELSE IF t[Len(t)] \in junk THEN StripHeadingChars(SubSeq(t, 1, Len(t) - 1))
        ELSE t

\* f"{'#' * level} {heading_text}"
HeadingLine(level, raw_first) ==
    [k \in 1..level |-> "#"] \o <<SP>>
    \o normalize_punctuation(
         StripHeadingChars(CollapseSpace(escape_markdown(raw_first), 1)))

\* the per-line loop shared by the heading tail and the paragraph path:
\* blank lines stay, footer noise goes, the rest is list-normalized
RECURSIVE FilterLines(_, _)
FilterLines(lns, i) ==
    IF i > Len(lns) THEN <<>>
    ELSE IF Strip(lns[i]) = <<>> THEN <<<<>>>> \o FilterLines(lns, i + 1)
    ELSE IF R_is_footer_noise(lns[i]) THEN FilterLines(lns, i + 1)
    ELSE <<_normalize_list_line(lns[i])>> \o FilterLines(lns, i + 1)

\* rendered lines to one paragraph text
Paragraph(rendered_lines) ==
    LET text == _fix_hyphenation(Join(rendered_lines, <<NL>>))
    IN  linkify_urls(normalize_punctuation(
            _unwrap_hard_breaks(FilterLines(SplitLines(text), 1))))

\* heading_by_size
HeadingBySize(avg, body_size, ratio10) == 10 * avg >= body_size * ratio10

\* the H1 size test: avg_line_size >= body_size * 1.6
LargeSize(avg, body_size) == 10 * avg >= body_size * 16

\* a plausible slip: level 1 is given on size alone, ahead of the ratio test
BlockToLinesLevelFirst(block, body_size, caps_to_headings, ratio10) ==
    LET src      == RenderedSource(block)
        rendered == [k \in 1..Len(src) |-> _safe_join_texts(TextsFmt(src[k]))]
        raw      == [k \in 1..Len(src) |-> _safe_join_texts(TextsRaw(src[k]))]
        avg      == RepresentativeSize(block, body_size)
        flat     == Strip(Join(raw, <<SP>>))
        by_caps  == caps_to_headings /\ (is_all_caps_line(flat) \/ is_mostly_caps(flat))
        level    == IF LargeSize(avg, body_size) \/ by_caps THEN 1 ELSE 2
    IN  IF src = <<>> THEN <<>>
        ELSE IF LargeSize(avg, body_size) \/ HeadingBySize(avg, body_size, ratio10) \/ by_caps
             THEN <<HeadingLine(level, raw[1]), <<>>>>
        ELSE <<Paragraph(rendered), <<>>>>

_block_to_lines(block, body_size, caps_to_headings, ratio10) ==
    LET src      == RenderedSource(block)
        rendered == [k \in 1..Len(src) |-> _safe_join_texts(TextsFmt(src[k]))]
        raw      == [k \in 1..Len(src) |-> _safe_join_texts(TextsRaw(src[k]))]
        avg      == RepresentativeSize(block, body_size)
        flat     == Strip(Join(raw, <<SP>>))
        by_size  == HeadingBySize(avg, body_size, ratio10)
        by_caps  == caps_to_headings /\ (is_all_caps_line(flat) \/ is_mostly_caps(flat))
        level    == IF LargeSize(avg, body_size) \/ by_caps THEN 1 ELSE 2
        para     == Paragraph(Tail(rendered))
    IN  IF src = <<>> THEN <<>>
        ELSE IF by_size \/ by_caps
             THEN IF Len(rendered) = 1
                  THEN <<HeadingLine(level, raw[1]), <<>>>>
                  ELSE <<HeadingLine(level, raw[1]), <<>>>>
                       \o (IF Strip(para) # <<>> THEN <<para, <<>>>> ELSE <<>>)
        ELSE <<Paragraph(rendered), <<>>>>

----------------------------------------------------------------------------
(* render.py: _defragment_orphans *)

\* index of the last non-blank entry of res at or before j (0 if none)
RECURSIVE LastNonBlank(_, _)
LastNonBlank(r, j) ==
    IF j < 1 THEN 0
    ELSE IF Strip(r[j]) = <<>> THEN LastNonBlank(r, j - 1) ELSE j

\* a plausible slip: the heading test is left out of the orphan test
IsOrphanOrHeading(lines, i, max_len) ==
    /\ i > 1
    /\ i < Len(lines)
    /\ Strip(lines[i - 1]) = <<>>
    /\ Strip(lines[i + 1]) = <<>>
    /\ Len(Strip(lines[i])) > 0
    /\ Len(Strip(lines[i])) <= max_len

\* lines[i] is an orphan: non-blank, blank lines right above and below,
\* short, not a heading
IsOrphan(lines, i, max_len) ==
    /\ i > 1
    /\ i < Len(lines)
    /\ Strip(lines[i - 1]) = <<>>
    /\ Strip(lines[i + 1]) = <<>>
    /\ Len(Strip(lines[i])) > 0
    /\ Len(Strip(lines[i])) <= max_len
    /\ ~StartsWith(Strip(lines[i]), "#")

\* the while loop over lines[i..], r being the lines kept so far
RECURSIVE DefragFrom(_, _, _, _)
DefragFrom(lines, i, r, max_len) ==
    IF i > Len(lines) THEN r
    ELSE LET j == LastNonBlank(r, Len(r))
         IN  IF IsOrphan(lines, i, max_len) /\ j >= 1
             THEN DefragFrom(lines, i + 2,
                    [r EXCEPT ![j] = Strip(RStrip(r[j]) \o <<SP>> \o Strip(lines[i]))],
                    max_len)
             ELSE DefragFrom(lines, i + 1, Append(r, lines[i]), max_len)

_defragment_orphans(md_text, max_len) ==
    Join(DefragFrom(SplitLines(md_text), 1, <<>>, max_len), <<NL>>)

----------------------------------------------------------------------------
(* render.py: the substitutions that close render_document *)

\* index of the first character at or after i that is not "\n"
RECURSIVE SkipNewlines(_, _)
SkipNewlines(s, i) ==
    IF i > Len(s) THEN Len(s) + 1
    ELSE IF s[i] = NL THEN SkipNewlines(s, i + 1) ELSE i

\* a plausible slip: the runs of newlines are left as they are
KeepNewlines(s, i) == SubSeq(s, i, Len(s))

\* re.sub(r"\n{3,}", "\n\n", md)
RECURSIVE CollapseNewlines(_, _)
CollapseNewlines(s, i) ==
    IF i > Len(s) THEN <<>>
    ELSE IF s[i] = NL
         THEN LET e == SkipNewlines(s, i)
              IN  (IF e - i >= 3 THEN <<NL, NL>> ELSE SubSeq(s, i, e - 1))
                  \o CollapseNewlines(s, e)
         ELSE <<s[i]>> \o CollapseNewlines(s, i + 1)

\* index of the first character at or after i that is not "-"
RECURSIVE SkipDashes(_, _)
SkipDashes(s, i) ==
    IF i > Len(s) THEN Len(s) + 1
    ELSE IF s[i] = "-" THEN SkipDashes(s, i + 1) ELSE i

\* the greatest u with lo <= u < hi and s[u] = "\n" (0 if none)
RECURSIVE LastNewlineIn(_, _, _)
LastNewlineIn(s, lo, hi) ==
    IF hi - 1 < lo THEN 0
    ELSE IF s[hi - 1] = NL THEN hi - 1 ELSE LastNewlineIn(s, lo, hi - 1)

\* where \s*\d*\s*$ (re.MULTILINE) ends when tried at p, as the backtracking
\* matcher prefers: the end of the text, else before the last newline of
\* the trailing whitespace, else before the last newline ahead of the digits;
\* 0 when it does not match
TailEnd(s, p) ==
    LET q  == SkipSpace(s, p)
        r  == SkipDigits(s, q)
        t  == SkipSpace(s, r)
        u2 == LastNewlineIn(s, r, t)
        u3 == LastNewlineIn(s, p, q)
    IN  IF t = Len(s) + 1 THEN t
        ELSE IF u2 > 0 THEN u2
        ELSE u3

\* where \s*-+\s*-+\s*\d*\s*$ ends when tried at i (0: no match): two dash
\* runs parted by whitespace are preferred to one run of two or more dashes
ArtifactEnd(s, i) ==
    LET p0 == SkipSpace(s, i)
        d1 == SkipDashes(s, p0)
        w  == SkipSpace(s, d1)
        d2 == SkipDashes(s, w)
        a  == IF d2 > w THEN TailEnd(s, d2) ELSE 0
        b  == IF d1 - p0 >= 2 THEN TailEnd(s, d1) ELSE 0
    IN  IF d1 = p0 THEN 0
        ELSE IF a > 0 THEN a
        ELSE b

\* re.sub(r"\s*-+\s*-+\s*\d*\s*$", "", md, flags=re.MULTILINE)
RECURSIVE StripArtifacts(_, _)
StripArtifacts(s, i) ==
    IF i > Len(s) THEN <<>>
    ELSE LET e == ArtifactEnd(s, i)
         IN  IF e > 0 THEN StripArtifacts(s, e)
             ELSE <<s[i]>> \o StripArtifacts(s, i + 1)

PunctChars == {",", ".", ";", ":", "?", "!"}

\* re.sub(r"\s+([,.;:?!])", r"\1", md)
RECURSIVE TightenPunct(_, _)
TightenPunct(s, i) ==
    IF i > Len(s) THEN <<>>
    ELSE LET q == SkipSpace(s, i)
         IN  IF q > i /\ q <= Len(s) /\ s[q] \in PunctChars
             THEN <<s[q]>> \o TightenPunct(s, q + 1)
             ELSE <<s[i]>> \o TightenPunct(s, i + 1)

----------------------------------------------------------------------------
(* transform.py: transform_pages, stage by stage *)

\* detect_repeating_edges' default min_pages
MinPagesDefault == 3

\* 1. strip decorative drop caps
T_StripDropCaps ==
    /\ pc = "t_start"
    /\ pages_t' = strip_drop_caps(pages)
    /\ header' = None
    /\ footer' = None
    /\ pc' = "t_stripped"
    /\ UNCHANGED <<pages, opts, body_sizes, md_lines, page_i, md, calls, arg, res>>

\* 2. detect repeating header/footer and remove them (if enabled)
T_DetectRemove ==
    /\ pc = "t_stripped"
    /\ opts.remove_headers_footers
    /\ LET hf == detect_repeating_edges(pages_t, MinPagesDefault)
       IN  /\ header' = hf[1]
           /\ footer' = hf[2]
           /\ pages_t' = remove_header_footer(pages_t, hf[1], hf[2])
    /\ pc' = "t_removed"
    /\ UNCHANGED <<pages, opts, body_sizes, md_lines, page_i, md, calls, arg, res>>

\* a plausible slip: the option is not consulted
T_RemoveAnyway ==
    /\ pc = "t_stripped"
    /\ ~opts.remove_headers_footers
    /\ LET hf == detect_repeating_edges(pages_t, MinPagesDefault)
       IN  /\ header' = hf[1]
           /\ footer' = hf[2]
           /\ pages_t' = remove_header_footer(pages_t, hf[1], hf[2])
    /\ pc' = "t_removed"
    /\ UNCHANGED <<pages, opts, body_sizes, md_lines, page_i, md, calls, arg, res>>

T_SkipRemove ==
    /\ pc = "t_stripped"
    /\ ~opts.remove_headers_footers
    /\ pc' = "t_removed"
    /\ UNCHANGED <<pages, opts, pages_t, header, footer, body_sizes,
                   md_lines, page_i, md, calls, arg, res>>

\* 3. merge bullet-only lines with the following text lines
T_MergeBullets ==
    /\ pc = "t_removed"
    /\ pages_t' = merge_bullet_lines(pages_t)
    /\ pc' = "t_merged"
    /\ UNCHANGED <<pages, opts, header, footer, body_sizes,
                   md_lines, page_i, md, calls, arg, res>>

\* 4. per-page body sizes; transform_pages returns
T_EstimateBody ==
    /\ pc = "t_merged"
    /\ body_sizes' = estimate_body_size(pages_t)
    /\ pc' = "t_done"
    /\ UNCHANGED <<pages, opts, pages_t, header, footer,
                   md_lines, page_i, md, calls, arg, res>>

NextTransform ==
    \/ T_StripDropCaps
    \/ T_DetectRemove
    \/ T_SkipRemove
    \/ T_MergeBullets
    \/ T_EstimateBody

----------------------------------------------------------------------------
(* render.py: render_document, one page per step, then the clean-up *)

\* the literal page rule
PageRule == <<"-", "-", "-">>

\* the Markdown lines of one page's non-empty blocks
RECURSIVE PageBlockLines(_, _, _, _)
PageBlockLines(blocks, b, body, options) ==
    IF b > Len(blocks) THEN <<>>
    ELSE (IF is_empty(blocks[b]) THEN <<>>
          ELSE _block_to_lines(blocks[b], body, options.caps_to_headings,
                               options.heading_size_ratio))
         \o PageBlockLines(blocks, b + 1, body, options)

\* body_sizes[i] if body_sizes and i < len(body_sizes) else 11.0  (i from 0;
\* no list and the empty list are both written <<>>)
BodyFor(sizes, i) ==
    IF sizes # <<>> /\ i < Len(sizes) THEN sizes[i + 1] ELSE DefaultBody

\* the loop body for page number page_i (from 0): its blocks, the page rule
\* unless it is the last page, the progress callback
R_RenderPage ==
    /\ pc = "r_loop"
    /\ page_i < Len(pages_t)
    /\ LET total == Len(pages_t)
           body  == BodyFor(body_sizes, page_i)
           rule  == IF opts.insert_page_breaks /\ page_i < total - 1
                    THEN <<PageRule, <<>>>> ELSE <<>>
       IN  /\ md_lines' = md_lines
                          \o PageBlockLines(pages_t[page_i + 1].blocks, 1, body, opts)
                          \o rule
           /\ calls' = IF arg.progress_cb THEN Append(calls, <<page_i + 1, total>>)
                       ELSE calls
    /\ page_i' = page_i + 1
    /\ UNCHANGED <<pc, pages, opts, pages_t, header, footer, body_sizes, md, arg, res>>

\* md = re.sub(r"\n{3,}", "\n\n", "\n".join(md_lines)).strip() + "\n"
JoinedDocument(lines) == Strip(CollapseNewlines(Join(lines, <<NL>>), 1)) \o <<NL>>

\* the tail of render_document: join, defragment if asked, two substitutions
FinishDocument(lines, options) ==
    LET joined == JoinedDocument(lines)
        defrag == IF options.defragment_short
                  THEN _defragment_orphans(joined, options.orphan_max_len)
                  ELSE joined
    IN  TightenPunct(StripArtifacts(defrag, 1), 1)

R_Finish ==
    /\ pc = "r_loop"
    /\ page_i = Len(pages_t)
    /\ md' = FinishDocument(md_lines, opts)
    /\ pc' = "r_done"
    /\ UNCHANGED <<pages, opts, pages_t, header, footer, body_sizes,
                   md_lines, page_i, calls, arg, res>>

NextRender == R_RenderPage \/ R_Finish


----------------------------------------------------------------------------
(* Where the stages could raise: every indexing and every median of the   *)
(* code, under the conditions the code puts before it                    *)

\* s[k] raises IndexError: k counts from 0, a negative k from the end
IndexRaises(s, k) == k >= Len(s) \/ k < 0 - Len(s)

\* statistics.median(s) raises StatisticsError on an empty list
MedianRaises(s) == s = <<>>

\* strip_drop_caps_in_page on one line: spans[0] after `if not spans`,
\* sizes_sorted[median_idx] and sizes_sorted[median_idx - 1] after `if sizes`
DropCapLineRaises(ln) ==
    /\ ln.spans # <<>>
    /\ \/ IndexRaises(ln.spans, 0)
       \/ /\ Tail(ln.spans) # <<>>
          /\ RestSizes(ln.spans) # <<>>
          /\ LET n == Len(RestSizes(ln.spans))
             IN  \/ IndexRaises(RestSizes(ln.spans), n \div 2)
                 \/ n % 2 = 0 /\ IndexRaises(RestSizes(ln.spans), n \div 2 - 1)

StripDropCapsRaises(ps) ==
    \E p \in 1..Len(ps) : \E k \in 1..Len(PageLines(ps[p])) :
        DropCapLineRaises(PageLines(ps[p])[k])

\* _merge_bullet_lines_in_page on one block: lines[i + 1] after
\* `i + 1 < len(lines)`, nxt_spans[0] after `if nxt_spans`
MergeBlockRaises(lines) ==
    \E i \in 0..(Len(lines) - 1) :
        /\ IsBulletOnly(_line_text(lines[i + 1]))
        /\ i + 1 < Len(lines)
        /\ \/ IndexRaises(lines, i + 1)
           \/ lines[i + 2].spans # <<>> /\ IndexRaises(lines[i + 2].spans, 0)

MergeBulletsRaises(ps) ==
    \E p \in 1..Len(ps) : \E b \in 1..Len(ps[p].blocks) :
        ps[p].blocks[b].lines # <<>> /\ MergeBlockRaises(ps[p].blocks[b].lines)

\* the sizes estimate_body_size collects on a page
CountedSizes(page) ==
    LET sps == SelectSeq(PageSpans(page),
                         LAMBDA sp : sp.size > 0 /\ Strip(sp.text) # <<>>)
    IN  [k \in 1..Len(sps) |-> sps[k].size]

\* estimate_body_size: sizes_sorted[mid], sizes_sorted[mid - 1] after `if sizes`
BodySizeRaises(ps) ==
    \E p \in 1..Len(ps) :
        LET n == Len(CountedSizes(ps[p]))
        IN  /\ CountedSizes(ps[p]) # <<>>
            /\ \/ IndexRaises(CountedSizes(ps[p]), n \div 2)
               \/ n % 2 = 0 /\ IndexRaises(CountedSizes(ps[p]), n \div 2 - 1)

\* a plausible slip: the guards `if not parts` and `if not t` are missing
SafeJoinUnguardedRaises(parts) ==
    \/ IndexRaises(parts, 0)
    \/ \E k \in 2..Len(parts) : IndexRaises(parts[k], 0)

\* _safe_join_texts: parts[0] after `if not parts`, t[0] after `if not t`,
\* prev[-1] after `if prev`
SafeJoinRaises(parts) ==
    /\ parts # <<>>
    /\ \/ IndexRaises(parts, 0)
       \/ \E k \in 2..Len(parts) : parts[k] # <<>> /\ IndexRaises(parts[k], 0)
       \/ \E k \in 1..Len(parts) : parts[k] # <<>> /\ IndexRaises(parts[k], -1)

\* _block_to_lines: the two joins of every line, median(sizes) after
\* `if sizes`, median(line_sizes) after `if line_sizes`, raw_lines[0] after
\* `if not rendered_lines: return []`
BlockRaises(block) ==
    \/ \E k \in 1..Len(block.lines) :
          \/ SafeJoinRaises(TextsFmt(block.lines[k]))
          \/ SafeJoinRaises(TextsRaw(block.lines[k]))
    \/ \E k \in 1..Len(RenderedSource(block)) :
          /\ LineSizes(RenderedSource(block)[k]) # <<>>
          /\ MedianRaises(LineSizes(RenderedSource(block)[k]))
    \/ /\ RenderedSource(block) # <<>>
       /\ IndexRaises(RenderedSource(block), 0)

\* the loop body of render_document for page i (from 0): body_sizes[i]
\* after `body_sizes and i < len(body_sizes)`, then the blocks not empty
RenderPageRaises(ps, i, sizes) ==
    \/ sizes # <<>> /\ i < Len(sizes) /\ IndexRaises(sizes, i)
    \/ \E b \in 1..Len(ps[i + 1].blocks) :
          ~is_empty(ps[i + 1].blocks[b]) /\ BlockRaises(ps[i + 1].blocks[b])

\* _defragment_orphans: lines[i - 1] after `i > 0`, lines[i + 1] after
\* `i < len(lines) - 1`
DefragRaises(md_text) ==
    LET lines == SplitLines(md_text)
    IN  \E i \in 0..(Len(lines) - 1) :
            /\ i > 0
            /\ \/ IndexRaises(lines, i - 1)
               \/ i < Len(lines) - 1 /\ IndexRaises(lines, i + 1)

\* the tail of render_document
FinishRaises(lines, options) ==
    options.defragment_short /\ DefragRaises(JoinedDocument(lines))

----------------------------------------------------------------------------
(* Specifications of single functions keep their input in arg and their    *)
(* results in res; the pipeline's variables stay idle.                     *)

pipeVars == <<pages, opts, pages_t, header, footer, body_sizes,
              md_lines, page_i, md, calls>>

PipelineIdle ==
    /\ pages = None /\ opts = None /\ pages_t = None /\ header = None
    /\ footer = None /\ body_sizes = None /\ md_lines = None
    /\ page_i = None /\ md = None /\ calls = None

----------------------------------------------------------------------------
(* Hyphenation repair applied once and twice to a bounded text *)

\* longest text fed to the hyphenation repair
MaxHyphLen == 5

HyphAlphabet == {"a", "-", NL, SP}

InitHyph ==
    /\ pc = "hyph0"
    /\ arg \in SeqsUpTo(HyphAlphabet, MaxHyphLen)
    /\ res = <<>>
    /\ PipelineIdle

Repair ==
    /\ pc = "hyph0"
    /\ res' = <<_fix_hyphenation(arg)>>
    /\ pc' = "hyph1"
    /\ UNCHANGED <<pipeVars, arg>>

RepairAgain ==
    /\ pc = "hyph1"
    /\ res' = Append(res, _fix_hyphenation(res[1]))
    /\ pc' = "hyph2"
    /\ UNCHANGED <<pipeVars, arg>>

NextHyph == Repair \/ RepairAgain

SpecHyph == InitHyph /\ [][NextHyph]_vars

\* t holds a hyphen, then one or more hyphen-newline pairs, then a newline
HyphenBeforeBlankLine(t) ==
    \E i \in 1..Len(t) : \E k \in 1..Len(t) :
        /\ i + 2 * k + 1 <= Len(t)
        /\ t[i] = "-"
        /\ \A j \in 1..k : t[i + 2 * j - 1] = "-" /\ t[i + 2 * j] = NL
        /\ t[i + 2 * k + 1] = NL

\* C10 as stated: repairing a repaired text changes nothing, for every text
C10_IdempotentAlways ==
    pc = "hyph2" => res[2] = res[1]

\* C10 amended: the repair is idempotent exactly on the texts that hold no
\* hyphen followed by hyphen-newline pairs and a further newline
C10_IdempotentUnlessBlankLine ==
    pc = "hyph2" => (res[2] = res[1] <=> ~HyphenBeforeBlankLine(arg))

\* a wrapped word was joined and the second repair left it alone
C10_Witness ==
    /\ pc = "hyph2"
    /\ arg = <<"a", "-", NL, SP, "a">>
    /\ res[1] = <<"a", SP, "a">>
    /\ res[2] = res[1]


----------------------------------------------------------------------------
(* strip_drop_caps_in_page applied to a bounded page *)

\* most spans after the first span of a line
MaxRestSpans == 2

\* first spans: a lone letter, a padded letter, a digit, two letters, nothing;
\* at 15.9 pt and 16 pt
DcFirstSpans ==
    {Span(t, z) : t \in {<<"A">>, <<SP, "a">>, <<"1">>, <<"a", "b">>, <<>>},
                  z \in {636, 640}}

\* later spans at no size, 9.9 pt and 10 pt
DcRestSpans == {Span(<<"x">>, z) : z \in {0, 396, 400}}

DcLines ==
    {Line(<<>>)} \cup
    {Line(<<f>> \o r) : f \in DcFirstSpans, r \in SeqsUpTo(DcRestSpans, MaxRestSpans)}

InitDropCap ==
    /\ pc = "dc0"
    /\ arg \in {PageText(<<Block(<<l1, l2>>)>>) : l1 \in DcLines, l2 \in DcLines}
               \cup {PageText(<<Block(<<>>), Block(<<l1>>)>>) : l1 \in DcLines}
    /\ res = None
    /\ PipelineIdle

StripDropCaps ==
    /\ pc = "dc0"
    /\ res' = strip_drop_caps_in_page(arg)
    /\ pc' = "dc1"
    /\ UNCHANGED <<pipeVars, arg>>

NextDropCap == StripDropCaps

SpecDropCap == InitDropCap /\ [][NextDropCap]_vars

\* the claim's condition on one line, spelled out on its own: the median is
\* the mean of the values of middle rank among the positive later sizes
C7_Qualifies(ln) ==
    /\ Len(ln.spans) >= 2
    /\ LET t     == Strip(ln.spans[1].text)
           sizes == {k \in 2..Len(ln.spans) : ln.spans[k].size > 0}
           n     == Cardinality(sizes)
           \* the span at index a holds the value of rank r (1 = smallest)
           HasRank(a, r) ==
               /\ Cardinality({k \in sizes : ln.spans[k].size < ln.spans[a].size}) < r
               /\ Cardinality({k \in sizes : ln.spans[k].size <= ln.spans[a].size}) >= r
       IN  /\ Len(t) = 1 /\ IsAlpha(t[1])
           /\ sizes # {}
           /\ \E a \in sizes, b \in sizes :
                /\ HasRank(a, (n + 1) \div 2)
                /\ HasRank(b, n \div 2 + 1)
                /\ 20 * ln.spans[1].size >= 16 * (ln.spans[a].size + ln.spans[b].size)

----------------------------------------------------------------------------
(* detect_repeating_edges, then remove_header_footer, on bounded pages *)

\* most pages of a document given to the edge detector
MaxEdgePages == 6

\* a line of one 10 pt span
TextLine(t) == Line(<<Span(t, 400)>>)

\* a page from the texts of its lines, block by block
TextPage(blks) ==
    PageText([b \in 1..Len(blks) |->
        Block([k \in 1..Len(blks[b]) |-> TextLine(blks[b][k])])])

\* pages that start with A or B and end with A, B or a bare page number
EdgePageShapes ==
    { TextPage(<< <<<<"A">>>> >>),
      TextPage(<< <<<<"B">>>> >>),
      TextPage(<< <<<<"A">>, <<"B">>>> >>),
      TextPage(<< <<<<"B">>, <<SP>>>>, <<<<"A">>, <<"1">>>> >>) }

InitEdges ==
    /\ pc = "e0"
    /\ arg \in [pages : SeqsUpTo(EdgePageShapes, MaxEdgePages), min_pages : {2, 3}]
    /\ res = None
    /\ PipelineIdle

DetectEdges ==
    /\ pc = "e0"
    /\ res' = [edges |-> detect_repeating_edges(arg.pages, arg.min_pages)]
    /\ pc' = "e1"
    /\ UNCHANGED <<pipeVars, arg>>

RemoveEdges ==
    /\ pc = "e1"
    /\ res' = [edges |-> res.edges,
               pages |-> remove_header_footer(arg.pages, res.edges[1], res.edges[2])]
    /\ pc' = "e2"
    /\ UNCHANGED <<pipeVars, arg>>

NextEdges == DetectEdges \/ RemoveEdges

SpecEdges == InitEdges /\ [][NextEdges]_vars

\* the pages whose first (last) non-blank line reads t
PagesHeadedBy(t) ==
    {k \in 1..Len(arg.pages) : _first_nonblank_line_text(arg.pages[k]) = t}

PagesEndedBy(t) ==
    {k \in 1..Len(arg.pages) : _last_nonblank_line_text(arg.pages[k]) = t}

\* the texts of a page's lines that are not exactly t, in order
TextsOtherThan(page, ts) ==
    LET ls == PageLines(page)
    IN  SelectSeq([k \in 1..Len(ls) |-> _line_text(ls[k])], LAMBDA t : t \notin ts)

AllLineTexts == {<<"A">>, <<"B">>, <<"1">>, <<>>}

\* C3: with the default min_pages of 3, a returned header (footer) is a
\* non-empty text that heads (ends) at least 3 pages; when no text heads or
\* ends more than 2 pages the result is (none, none) and the remover deletes
\* no line for its text being equal to an edge: every A and B line stays
C3_EdgesNeedThreePages ==
    (pc \in {"e1", "e2"} /\ arg.min_pages = 3) =>
        /\ res.edges[1] # None =>
              res.edges[1] # <<>> /\ Cardinality(PagesHeadedBy(res.edges[1])) >= 3
        /\ res.edges[2] # None =>
              res.edges[2] # <<>> /\ Cardinality(PagesEndedBy(res.edges[2])) >= 3
        /\ (\A t \in AllLineTexts \ {<<>>} :
               Cardinality(PagesHeadedBy(t)) <= 2 /\ Cardinality(PagesEndedBy(t)) <= 2)
           => /\ res.edges = <<None, None>>
              /\ pc = "e2" =>
                   \A k \in 1..Len(arg.pages) :
                       TextsOtherThan(res.pages[k], {<<"1">>})
                         = TextsOtherThan(arg.pages[k], {<<"1">>})

\* two pages open with A and two with B; nothing is detected or removed
C3_Witness ==
    /\ pc = "e2"
    /\ arg.min_pages = 3
    /\ Cardinality(PagesHeadedBy(<<"A">>)) = 2
    /\ Cardinality(PagesHeadedBy(<<"B">>)) = 2
    /\ Cardinality(PagesEndedBy(<<"B">>)) = 2
    /\ res.edges = <<None, None>>
    /\ \E k \in 1..Len(arg.pages) : res.pages[k] = arg.pages[k]

\* three pages open with B; B is the header
C3_WitnessDetected ==
    /\ pc = "e2"
    /\ arg.min_pages = 3
    /\ Cardinality(PagesHeadedBy(<<"B">>)) = 3
    /\ res.edges[1] = <<"B">>


\* the candidates that share the highest count
Leaders(cands) ==
    {x \in {cands[i] : i \in 1..Len(cands)} :
        \A j \in 1..Len(cands) : CountOf(cands[j], cands) <= CountOf(x, cands)}

\* two or more candidates lead, with a count of at least min_pages
TiedLeaders(cands) ==
    /\ Cardinality(Leaders(cands)) >= 2
    /\ \A x \in Leaders(cands) : CountOf(x, cands) >= arg.min_pages

\* the scan position at which x was first seen
FirstSeenAt(x, cands) ==
    CHOOSE i \in 1..Len(cands) : cands[i] = x /\ \A j \in 1..(i - 1) : cands[j] # x

\* the scan position at which x reached its final count
ReachedAt(x, cands) ==
    CHOOSE i \in 1..Len(cands) : cands[i] = x /\ \A j \in (i + 1)..Len(cands) : cands[j] # x

----------------------------------------------------------------------------
(* transform_pages on bounded documents *)

\* most pages of a document given to transform_pages
MaxPages == 3

\* Options: the defaults, with remove_headers_footers on or off
TransformOptions ==
    [remove_headers_footers : BOOLEAN,
     caps_to_headings       : {FALSE},
     defragment_short       : {FALSE},
     insert_page_breaks     : {FALSE},
     heading_size_ratio     : {13},
     orphan_max_len         : {45}]

\* pages with a bullet glyph on a line of its own: as the first line of the
\* last block, in an earlier block, and below a line that reads like the
\* merged pair; an empty page
TransformPageShapes ==
    {TextPage(<< <<<<g>>, <<"A">>>> >>) : g \in BulletGlyphs}
    \cup { TextPage(<< <<<<"-">>, <<"A">>>>, <<<<"x">>>> >>),
           TextPage(<< <<<<"BULLET", SP, "A">>>>, <<<<"BULLET">>, <<"A">>, <<"x">>>> >>),
           TextPage(<<>>) }

InitTransform ==
    /\ pc = "t_start"
    /\ pages \in SeqsUpTo(TransformPageShapes, MaxPages)
    /\ opts \in TransformOptions
    /\ pages_t = None /\ header = None /\ footer = None /\ body_sizes = None
    /\ md_lines = None /\ page_i = None /\ md = None /\ calls = None
    /\ arg = None /\ res = None

SpecTransform == InitTransform /\ [][NextTransform]_vars

\* every line of every page of ps
AllLines(ps) ==
    UNION {{PageLines(ps[k])[i] : i \in 1..Len(PageLines(ps[k]))} : k \in 1..Len(ps)}

\* the line's text is the detected header or the detected footer
ReadsAsEdge(ln) ==
    \/ header # None /\ _line_text(ln) = header
    \/ footer # None /\ _line_text(ln) = footer

\* the line's leading spans read as a lone bullet glyph and more spans follow
StartsWithBulletSpans(ln) ==
    \E j \in 1..(Len(ln.spans) - 1) :
        IsBulletOnly(Strip(Concat([k \in 1..j |-> ln.spans[k].text])))

\* C5 as stated: no returned line reads as the header or the footer
C5_NoEdgeLineReturned ==
    (pc = "t_done" /\ opts.remove_headers_footers) =>
        \A ln \in AllLines(pages_t) : ~ReadsAsEdge(ln)

\* C5 amended: no line reads as the header or the footer when the
\* header/footer stage is done; a returned line that does was built by
\* bullet-line merging from a bullet-only line and the line after it
C5_NoEdgeLineButMerged ==
    opts.remove_headers_footers =>
        /\ pc = "t_removed" => \A ln \in AllLines(pages_t) : ~ReadsAsEdge(ln)
        /\ pc \in {"t_merged", "t_done"} =>
             \A ln \in AllLines(pages_t) : ReadsAsEdge(ln) => StartsWithBulletSpans(ln)

\* a header was detected, its lines were removed, and other lines remain
C5_Witness ==
    /\ pc = "t_removed"
    /\ opts.remove_headers_footers
    /\ header = <<"BULLET", SP, "A">>
    /\ \E ln \in AllLines(strip_drop_caps(pages)) : _line_text(ln) = header
    /\ AllLines(pages_t) # {}
    /\ \A ln \in AllLines(pages_t) : ~ReadsAsEdge(ln)

\* C6: a bullet-only line that opens a pair comes back merged with the line
\* after it: glyph spans, then the next line's spans behind a space
C6_BulletPairMerged ==
    pc = "t_done" =>
        \A p \in 1..Len(pages) : \A b \in 1..Len(pages[p].blocks) :
            LET lines == pages[p].blocks[b].lines
            IN  \A i \in 1..(Len(lines) - 1) :
                  (/\ IsBulletOnly(_line_text(lines[i]))
                   /\ i > 1 => ~IsBulletOnly(_line_text(lines[i - 1])))
                  => Line(lines[i].spans \o SpacedSpans(lines[i + 1].spans))
                       \in AllLines(<<pages_t[p]>>)


----------------------------------------------------------------------------
(* _block_to_lines on bounded blocks *)

\* most lines of a block given to _block_to_lines
MaxBlockLines == 2

\* line texts: a hard break, a bullet item with a hard break, plain text,
\* capitals, a dash rule with a page number
BlockTexts ==
    { <<"a", SP, SP>>, <<"-", SP, "a", SP, SP>>, <<"b">>, <<"A", "B">>,
      <<"-", SP, "-", SP, "1">> }

\* no size, 10 pt, 13 pt, 17 pt
BlockSizes == {0, 400, 520, 680}

BlockLinePool == {Line(<<Span(t, z)>>) : t \in BlockTexts, z \in BlockSizes}

InitBlock ==
    /\ pc = "b0"
    /\ arg \in [block            : {Block(ls) : ls \in SeqsUpTo(BlockLinePool, MaxBlockLines)},
                body_size        : {400},
                caps_to_headings : BOOLEAN,
                ratio10          : {13, 16, 20}]
    /\ res = None
    /\ PipelineIdle

BlockToLines ==
    /\ pc = "b0"
    /\ res' = _block_to_lines(arg.block, arg.body_size, arg.caps_to_headings, arg.ratio10)
    /\ pc' = "b1"
    /\ UNCHANGED <<pipeVars, arg>>

NextBlock == BlockToLines

SpecBlock == InitBlock /\ [][NextBlock]_vars

\* t starts with the characters of prefix
HasPrefix(t, prefix) ==
    Len(t) >= Len(prefix) /\ SubSeq(t, 1, Len(prefix)) = prefix

\* the block has a line with text to render
BlockNonEmpty == RenderedSource(arg.block) # <<>>

\* the caps condition triggered
CapsTriggered ==
    LET src  == RenderedSource(arg.block)
        flat == Strip(Join([k \in 1..Len(src) |-> _safe_join_texts(TextsRaw(src[k]))], <<SP>>))
    IN  arg.caps_to_headings /\ (is_all_caps_line(flat) \/ is_mostly_caps(flat))

\* the representative size is at least body size x ratio, resp. x 1.6
RepAtLeastRatio ==
    10 * RepresentativeSize(arg.block, arg.body_size) >= arg.body_size * arg.ratio10

RepAtLeastLarge ==
    10 * RepresentativeSize(arg.block, arg.body_size) >= arg.body_size * 16

IsLevel1 == HasPrefix(res[1], <<"#", SP>>)

IsLevel2 == HasPrefix(res[1], <<"#", "#", SP>>)

IsNoHeading == ~HasPrefix(res[1], <<"#">>)

\* C8 as stated: level 1 from 1.6 x body up or on caps, level 2 in
\* [ratio x body, 1.6 x body) without caps, no heading below ratio x body
\* without caps, for every heading_size_ratio
C8_LevelsForEveryRatio ==
    (pc = "b1" /\ BlockNonEmpty) =>
        /\ (RepAtLeastLarge \/ CapsTriggered) => IsLevel1
        /\ (RepAtLeastRatio /\ ~RepAtLeastLarge /\ ~CapsTriggered) => IsLevel2
        /\ (~RepAtLeastRatio /\ ~CapsTriggered) => IsNoHeading

\* C8 amended: level 1 needs the size to reach ratio x body as well as
\* 1.6 x body (or caps); below ratio x body without caps there is no heading
C8_LevelsWithinRatio ==
    (pc = "b1" /\ BlockNonEmpty) =>
        /\ ((RepAtLeastRatio /\ RepAtLeastLarge) \/ CapsTriggered) => IsLevel1
        /\ (RepAtLeastRatio /\ ~RepAtLeastLarge /\ ~CapsTriggered) => IsLevel2
        /\ (~RepAtLeastRatio /\ ~CapsTriggered) => IsNoHeading

\* 17 pt over a 10 pt body with ratio 2.0: above 1.6 x and yet no heading
C8_Witness ==
    /\ pc = "b1"
    /\ BlockNonEmpty
    /\ arg.ratio10 = 20
    /\ RepresentativeSize(arg.block, arg.body_size) = 680
    /\ ~CapsTriggered
    /\ IsNoHeading

\* 17 pt with ratio 1.3 is level 1, 13 pt is level 2
C8_WitnessLevels ==
    /\ pc = "b1"
    /\ arg.ratio10 = 13
    /\ ~CapsTriggered
    /\ \/ RepresentativeSize(arg.block, arg.body_size) = 680 /\ IsLevel1
       \/ RepresentativeSize(arg.block, arg.body_size) = 520 /\ IsLevel2

\* the rendered text of the block's non-blank lines
RenderedLines ==
    LET src == RenderedSource(arg.block)
    IN  [k \in 1..Len(src) |-> _safe_join_texts(TextsFmt(src[k]))]

\* C9: in the paragraph path every line that ends with two spaces ends its
\* paragraph, so the paragraph text has one more line than there are such
\* lines before the last (no line is noise or ends with a hyphen here)
C9_HardBreakEndsParagraph ==
    (/\ pc = "b1"
     /\ BlockNonEmpty
     /\ ~RepAtLeastRatio /\ ~CapsTriggered
     /\ \A k \in 1..Len(RenderedLines) :
          /\ ~R_is_footer_noise(RenderedLines[k])
          /\ RenderedLines[k][Len(RenderedLines[k])] # "-")
    => Len(SplitLines(res[1]))
         = 1 + Cardinality({k \in 1..(Len(RenderedLines) - 1) :
                               EndsWithTwoSpaces(RenderedLines[k])})


----------------------------------------------------------------------------
(* render_document on bounded documents *)

\* most pages of a document given to render_document
MaxRenderPages == 3

RenderOptions ==
    [remove_headers_footers : {FALSE},
     caps_to_headings       : {FALSE},
     defragment_short       : BOOLEAN,
     insert_page_breaks     : BOOLEAN,
     heading_size_ratio     : {13},
     orphan_max_len         : {45}]

\* pages of one paragraph, of a short paragraph and a long one, of a line
\* that ends in dashes, of a 20 pt title over a paragraph, of a dash rule
\* between two paragraphs; an empty page
RenderPageShapes ==
    { TextPage(<< <<<<"a">>>> >>),
      TextPage(<< <<<<"a">>>>, <<<<"b", SP, "c">>, <<"d", ",">>>> >>),
      TextPage(<< <<<<"a", SP, "-", "-", "1">>>> >>),
      PageText(<< Block(<<Line(<<Span(<<"A", "b">>, 800)>>)>>),
                  Block(<<TextLine(<<"c">>)>>) >>),
      TextPage(<< <<<<"a">>>>, <<<<"-", SP, "-", SP, "1">>>>, <<<<"b">>>> >>),
      TextPage(<<>>) }

InitRender ==
    /\ pc = "r_loop"
    /\ pages_t \in SeqsUpTo(RenderPageShapes, MaxRenderPages)
    /\ opts \in RenderOptions
    /\ body_sizes \in {<<>>, [k \in 1..Len(pages_t) |-> 400]}
    /\ arg \in [progress_cb : BOOLEAN]
    /\ calls = <<>>
    /\ md_lines = <<>>
    /\ page_i = 0
    /\ md = None
    /\ pages = None /\ header = None /\ footer = None
    /\ res = None

SpecRender == InitRender /\ [][NextRender]_vars

\* C1: the returned string ends with exactly one newline
C1_OneTrailingNewline ==
    pc = "r_done" =>
        /\ Len(md) >= 1
        /\ md[Len(md)] = NL
        /\ Len(md) >= 2 => md[Len(md) - 1] # NL

\* the document's lines that are a page rule
RuleLines(text) ==
    {k \in 1..Len(SplitLines(text)) : SplitLines(text)[k] = PageRule}

\* C2: N >= 1 pages with insert_page_breaks give exactly N - 1 lines `---`,
\* none of them the first or the last line of the document
C2_PageRulesBetweenPages ==
    (pc = "r_done" /\ opts.insert_page_breaks /\ Len(pages_t) >= 1) =>
        /\ Cardinality(RuleLines(md)) = Len(pages_t) - 1
        /\ \A k \in RuleLines(md) : 1 < k /\ k < Len(SplitLines(md))

----------------------------------------------------------------------------
(* _normalize_list_line applied twice to bounded lines *)

\* longest line given to _normalize_list_line
MaxNormLen == 4

NormAlphabet == {"-", "BULLET", "1", ".", ")", "a", SP}

InitNorm ==
    /\ pc = "n0"
    /\ arg \in SeqsUpTo(NormAlphabet, MaxNormLen)
    /\ res = None
    /\ PipelineIdle

Normalize ==
    /\ pc = "n0"
    /\ res' = <<_normalize_list_line(arg)>>
    /\ pc' = "n1"
    /\ UNCHANGED <<pipeVars, arg>>

NormalizeAgain ==
    /\ pc = "n1"
    /\ res' = <<res[1], _normalize_list_line(res[1])>>
    /\ pc' = "n2"
    /\ UNCHANGED <<pipeVars, arg>>

NextNorm == Normalize \/ NormalizeAgain

SpecNorm == InitNorm /\ [][NextNorm]_vars

\* the line reads `- text` or `N. text`: the prefix, one space, then text
\* that does not start with whitespace
IsCanonicalListLine(ln) ==
    LET d == SkipDigits(ln, 1)
    IN  \/ /\ HasPrefix(ln, <<"-", SP>>)
           /\ Len(ln) >= 3 => ~IsSpace(ln[3])
        \/ /\ d > 1 /\ d + 1 <= Len(ln)
           /\ ln[d] = "." /\ ln[d + 1] = SP
           /\ Len(ln) >= d + 2 => ~IsSpace(ln[d + 2])

\* C11: normalizing the normalized line changes nothing, and a line that
\* already reads `- text` or `N. text` comes back as it went in
C11_NormalizeIdempotent ==
    /\ pc = "n2" => res[2] = res[1]
    /\ (pc \in {"n1", "n2"} /\ IsCanonicalListLine(arg)) => res[1] = arg

\* C11: a bullet glyph line was rewritten to `- a` and normalized once more
C11_Witness ==
    /\ pc = "n2"
    /\ arg = <<"BULLET", SP, SP, "a">>
    /\ res[1] = <<"-", SP, "a">>
    /\ res[2] = res[1]

\* three newline characters in a row somewhere in text
HasNewlineRun(text) ==
    \E k \in 1..(Len(text) - 2) :
        text[k] = NL /\ text[k + 1] = NL /\ text[k + 2] = NL

\* C12: the returned document holds no run of 3 or more newlines
C12_NoNewlineRun == pc = "r_done" => ~HasNewlineRun(md)

\* C12: the joined lines held such a run, page rules were inserted, the
\* defragmenter ran, and the returned document holds none
C12_Witness ==
    /\ pc = "r_done"
    /\ HasNewlineRun(Join(md_lines, <<NL>>))
    /\ opts.defragment_short /\ opts.insert_page_breaks
    /\ Len(pages_t) >= 2
    /\ md # <<>>
    /\ ~HasNewlineRun(md)

\* the raw text of a line of the block
RawText(ln) == _safe_join_texts(TextsRaw(ln))

HasDigit(text) == \E k \in 1..Len(text) : IsDigit(text[k])

\* C13: a line of only whitespace, dashes, dots and digits with two dashes
\* or more gives the output no text, wherever it stands in its block and
\* heading or not: when no other line of the block holds a digit, the
\* output holds none
C13_NoiseLinesDropped ==
    (/\ pc = "b1"
     /\ \A k \in 1..Len(arg.block.lines) :
           R_is_footer_noise(RawText(arg.block.lines[k]))
           \/ ~HasDigit(RawText(arg.block.lines[k])))
    => \A k \in 1..Len(res) : ~HasDigit(res[k])

----------------------------------------------------------------------------
(* _defragment_orphans on bounded texts *)

\* most lines of a text given to _defragment_orphans; the text ends with a
\* newline, as render_document passes it
MaxDefragLines == 6

\* an empty line, a one-letter line, a two-letter line, a heading
DefragLinePool == {<<>>, <<"a">>, <<"a", "b">>, <<"#", "a">>}

InitDefrag ==
    /\ pc = "d0"
    /\ arg \in [md      : {Join(ls, <<NL>>) \o <<NL>> :
                              ls \in SeqsUpTo(DefragLinePool, MaxDefragLines)},
                max_len : {1, 2}]
    /\ res = None
    /\ PipelineIdle

Defragment ==
    /\ pc = "d0"
    /\ res' = _defragment_orphans(arg.md, arg.max_len)
    /\ pc' = "d1"
    /\ UNCHANGED <<pipeVars, arg>>

NextDefrag == Defragment

SpecDefrag == InitDefrag /\ [][NextDefrag]_vars

\* the lines of the text given
GivenLines == SplitLines(arg.md)

\* the claim's orphan: non-blank, a blank line right above and right
\* below, trimmed length at most max_len, trimmed text not starting with #
OrphanAt(i) ==
    /\ 1 < i /\ i < Len(GivenLines)
    /\ Strip(GivenLines[i]) # <<>>
    /\ Strip(GivenLines[i - 1]) = <<>>
    /\ Strip(GivenLines[i + 1]) = <<>>
    /\ Len(Strip(GivenLines[i])) <= arg.max_len
    /\ Strip(GivenLines[i])[1] # "#"

AllOrphans == {i \in 1..Len(GivenLines) : OrphanAt(i)}

\* the orphans that have a non-blank line somewhere above them
OrphansBelowText ==
    {i \in AllOrphans : \E j \in 1..(i - 1) : Strip(GivenLines[j]) # <<>>}

\* with the lines of `gone` merged away: the lines that stay are those
\* neither in gone nor right after one of gone
StayingLines(gone) ==
    {i \in 1..Len(GivenLines) : i \notin gone /\ (i - 1) \notin gone}

\* the staying non-blank line nearest above line o (0 if none)
TargetOf(o, gone) ==
    LET above == {k \in StayingLines(gone) : k < o /\ Strip(GivenLines[k]) # <<>>}
    IN  IF above = {} THEN 0 ELSE CHOOSE k \in above : \A m \in above : m <= k

\* line i followed by the trimmed texts of the lines of `gone` at or after
\* o that are merged into it, a space before each
RECURSIVE WithMerged(_, _, _, _)
WithMerged(text, i, o, gone) ==
    IF o > Len(GivenLines) THEN text
    ELSE IF o \in gone /\ TargetOf(o, gone) = i
         THEN WithMerged(Strip(text) \o <<SP>> \o Strip(GivenLines[o]), i, o + 1, gone)
         ELSE WithMerged(text, i, o + 1, gone)

\* the text expected when exactly the lines of `gone` are merged
RECURSIVE ExpectedFrom(_, _)
ExpectedFrom(i, gone) ==
    IF i > Len(GivenLines) THEN <<>>
    ELSE (IF i \in StayingLines(gone)
          THEN <<WithMerged(GivenLines[i], i, i + 1, gone)>> ELSE <<>>)
         \o ExpectedFrom(i + 1, gone)

C14_WitnessChain ==
    /\ pc = "d1"
    /\ arg.md = <<"a", "b", NL, NL, "a", NL, NL, "a", NL, NL>>
    /\ arg.max_len = 1
    /\ res = <<"a", "b", SP, "a", SP, "a", NL>>

\* C14: an orphan below a blank first line stayed
C14_WitnessKept ==
    /\ pc = "d1"
    /\ AllOrphans # OrphansBelowText
    /\ arg.md = res \o <<NL>>

----------------------------------------------------------------------------
(* transform_pages followed by render_document, on degenerate pages *)

\* most pages of a document sent through both stages
MaxPipePages == 2

PipeOptions ==
    [remove_headers_footers : BOOLEAN,
     caps_to_headings       : BOOLEAN,
     defragment_short       : BOOLEAN,
     insert_page_breaks     : BOOLEAN,
     heading_size_ratio     : {13},
     orphan_max_len         : {45}]

\* a page without blocks, a block without lines, a line without spans, a
\* block of a span-less line, an empty span and sizeless spans, a bullet
\* glyph before a span-less line, a 16 pt initial before 10 pt text, a
\* line before a dash rule
PipePageShapes ==
    { PageText(<<>>),
      PageText(<<Block(<<>>)>>),
      PageText(<<Block(<<Line(<<>>)>>)>>),
      PageText(<<Block(<<Line(<<>>), Line(<<Span(<<>>, 0)>>),
                         Line(<<Span(<<"A">>, 0), Span(<<>>, 400), Span(<<"x">>, 0)>>)>>)>>),
      PageText(<<Block(<<TextLine(<<"BULLET">>), Line(<<>>)>>)>>),
      PageText(<<Block(<<Line(<<Span(<<"A">>, 640), Span(<<"x">>, 400)>>)>>)>>),
      TextPage(<< <<<<"a">>>>, <<<<"-", SP, "-">>>> >>) }

InitPipeline ==
    /\ pc = "t_start"
    /\ pages \in SeqsUpTo(PipePageShapes, MaxPipePages)
    /\ opts \in PipeOptions
    /\ arg \in [progress_cb : BOOLEAN]
    /\ pages_t = None /\ header = None /\ footer = None /\ body_sizes = None
    /\ md_lines = None /\ page_i = None /\ md = None /\ calls = None
    /\ res = None

\* render_document is entered with what transform_pages returned:
\* md_lines = [], total = len(pages)
R_Begin ==
    /\ pc = "t_done"
    /\ md_lines' = <<>>
    /\ page_i' = 0
    /\ calls' = <<>>
    /\ pc' = "r_loop"
    /\ UNCHANGED <<pages, opts, pages_t, header, footer, body_sizes, md, arg, res>>

NextPipeline == NextTransform \/ R_Begin \/ NextRender

SpecPipeline == InitPipeline /\ [][NextPipeline]_vars

\* the stage that runs next raises
NextStageRaises ==
    \/ pc = "t_start" /\ StripDropCapsRaises(pages)
    \/ pc = "t_removed" /\ MergeBulletsRaises(pages_t)
    \/ pc = "t_merged" /\ BodySizeRaises(pages_t)
    \/ pc = "r_loop" /\ page_i < Len(pages_t)
          /\ RenderPageRaises(pages_t, page_i, body_sizes)
    \/ pc = "r_loop" /\ page_i = Len(pages_t) /\ FinishRaises(md_lines, opts)

\* a stage is ready to run: one of the guards of the stage steps holds
NextStageReady ==
    \/ pc \in {"t_start", "t_stripped", "t_removed", "t_merged", "t_done"}
    \/ pc = "r_loop" /\ page_i \in 0..Len(pages_t)

\* C15: on every well-formed page collection and every options value no
\* stage of transform_pages or render_document raises, each stage hands on
\* to the next, and the run ends with a text returned
C15_PipelineTotal ==
    /\ ~NextStageRaises
    /\ pc # "r_done" => NextStageReady
    /\ pc = "r_done" => (md # None /\ \A k \in 1..Len(md) : md[k] \in STRING)

\* C15: a document with a span-less line, an empty span and sizeless spans
\* went through both stages
C15_Witness ==
    /\ pc = "r_done"
    /\ \E p \in 1..Len(pages) : \E k \in 1..Len(PageLines(pages[p])) :
          PageLines(pages[p])[k].spans = <<>>
    /\ \E p \in 1..Len(pages) : \E k \in 1..Len(PageSpans(pages[p])) :
          PageSpans(pages[p])[k].text = <<>> /\ PageSpans(pages[p])[k].size = 0
    /\ Len(body_sizes) = Len(pages)

----------------------------------------------------------------------------
(* _merge_bullet_lines_in_page statement by statement on one block, the   *)
(* span lists held in a store: arg is the block as it was given (a line   *)
(* is the address of its span list), res the store and the locals of the  *)
(* while loop                                                             *)

\* most lines of the block
MaxMergeLines == 3

\* span lists: a bullet glyph, a word, no span, a word after a space
MergeSpanLists ==
    { <<Span(<<"BULLET">>, 400)>>, <<Span(<<"A">>, 400), Span(<<"x">>, 400)>>,
      <<>>, <<Span(<<SP, "x">>, 400)>> }

\* a plausible slip: nxt_spans = nxt.spans, the same list object
ListAlias(store, a) == [store |-> store, at |-> a]

\* list(nxt.spans): a new list object with the same spans
ListCopy(store, a) == [store |-> Append(store, store[a]), at |-> Len(store) + 1]

\* the line at position i (from 0) of the block, as a Line value
LineAt(store, lines, i) == Line(store[lines[i + 1]])

InitMerge ==
    /\ pc = "m_loop"
    /\ \E store \in SeqsUpTo(MergeSpanLists, MaxMergeLines) :
          /\ arg = [store |-> store, lines |-> [k \in 1..Len(store) |-> k]]
          /\ res = [store |-> store, i |-> 0, merged |-> <<>>, nxt_spans |-> 0]
    /\ PipelineIdle

\* the test of line 285
BulletWithNext ==
    /\ IsBulletOnly(_line_text(LineAt(res.store, arg.lines, res.i)))
    /\ res.i + 1 < Len(arg.lines)

\* merged_lines.append(ln); i += 1
M_Keep ==
    /\ pc = "m_loop"
    /\ res.i < Len(arg.lines)
    /\ ~BulletWithNext
    /\ res' = [res EXCEPT !.merged = Append(@, arg.lines[res.i + 1]), !.i = @ + 1]
    /\ UNCHANGED <<pc, pipeVars, arg>>

\* nxt = lines[i + 1]; nxt_spans = list(nxt.spans)
M_Copy ==
    /\ pc = "m_loop"
    /\ res.i < Len(arg.lines)
    /\ BulletWithNext
    /\ LET c == ListCopy(res.store, arg.lines[res.i + 2])
       IN  res' = [res EXCEPT !.store = c.store, !.nxt_spans = c.at]
    /\ pc' = "m_space"
    /\ UNCHANGED <<pipeVars, arg>>

\* if nxt_spans: ... nxt_spans[0] = replace(first_span, text=" " + ...)
M_Space ==
    /\ pc = "m_space"
    /\ res' = [res EXCEPT !.store[res.nxt_spans] = SpacedSpans(@)]
    /\ pc' = "m_combine"
    /\ UNCHANGED <<pipeVars, arg>>

\* combined_spans = list(ln.spans) + nxt_spans; merged_ln appended; i += 2
M_Combine ==
    /\ pc = "m_combine"
    /\ res' = [res EXCEPT
                 !.store = Append(@, @[arg.lines[res.i + 1]] \o @[res.nxt_spans]),
                 !.merged = Append(@, Len(res.store) + 1),
                 !.i = @ + 2]
    /\ pc' = "m_loop"
    /\ UNCHANGED <<pipeVars, arg>>

\* the loop ends: the block is returned with merged_lines
M_Return ==
    /\ pc = "m_loop"
    /\ res.i >= Len(arg.lines)
    /\ pc' = "m_done"
    /\ UNCHANGED <<pipeVars, arg, res>>

NextMerge == M_Keep \/ M_Copy \/ M_Space \/ M_Combine \/ M_Return

SpecMerge == InitMerge /\ [][NextMerge]_vars

----------------------------------------------------------------------------
(* transform_pages on pages whose spans differ in size *)

\* most pages of a document of sized pages
MaxSizedPages == 3

SizedLine(t, sz) == Line(<<Span(t, sz)>>)

\* pages under the same first line B: two sized lines; a bullet and its text;
\* nothing else; then a page without blocks, a page of a blank sized span
\* and a sizeless page number, and a page that opens with a drop cap
SizedPageShapes ==
    { PageText(<<Block(<<SizedLine(<<"B">>, 400)>>),
                 Block(<<SizedLine(<<"a">>, 520), SizedLine(<<"b">>, 640)>>)>>),
      PageText(<<Block(<<SizedLine(<<"B">>, 400)>>),
                 Block(<<SizedLine(<<"BULLET">>, 400), SizedLine(<<"c">>, 800)>>)>>),
      PageText(<<Block(<<SizedLine(<<"B">>, 400)>>)>>),
      PageText(<<>>),
      PageText(<<Block(<<SizedLine(<<SP, SP>>, 520), SizedLine(<<"1">>, 0)>>)>>),
      PageText(<<Block(<<Line(<<Span(<<"A">>, 800), Span(<<"b", "e">>, 400)>>),
                         SizedLine(<<"e">>, 400)>>)>>) }

InitSized ==
    /\ pc = "t_start"
    /\ pages \in SeqsUpTo(SizedPageShapes, MaxSizedPages)
    /\ opts \in TransformOptions
    /\ pages_t = None /\ header = None /\ footer = None /\ body_sizes = None
    /\ md_lines = None /\ page_i = None /\ md = None /\ calls = None
    /\ arg = None /\ res = None

SpecSized == InitSized /\ [][NextTransform]_vars

\* the characters of a block other than spaces, in reading order
BlockChars(blk) ==
    SelectSeq(Concat([k \in 1..Len(blk.lines) |-> _line_text(blk.lines[k])]),
              LAMBDA c : c # SP)

RECURSIVE IsSubseq(_, _)
IsSubseq(a, b) ==
    IF a = <<>> THEN TRUE
    ELSE IF b = <<>> THEN FALSE
    ELSE IF a[1] = b[1] THEN IsSubseq(Tail(a), Tail(b))
    ELSE IsSubseq(a, Tail(b))

\* every block of out comes from a block of given, in the same order, with
\* its characters in the same order
RECURSIVE BlocksInOrder(_, _)
BlocksInOrder(out, given) ==
    IF out = <<>> THEN TRUE
    ELSE IF given = <<>> THEN FALSE
    ELSE IF IsSubseq(BlockChars(out[1]), BlockChars(given[1]))
         THEN BlocksInOrder(Tail(out), Tail(given))
         ELSE BlocksInOrder(out, Tail(given))

\* the sizes estimate_body_size counts on a page
SizesCounted(page) ==
    LET sps == SelectSeq(PageSpans(page),
                         LAMBDA sp : sp.size > 0 /\ Strip(sp.text) # <<>>)
    IN  [k \in 1..Len(sps) |-> sps[k].size]

\* v is a median of sizes: half of them are not above it, half not below
IsMedianOf(v, sizes) ==
    /\ 2 * Cardinality({k \in 1..Len(sizes) : sizes[k] <= v}) >= Len(sizes)
    /\ 2 * Cardinality({k \in 1..Len(sizes) : sizes[k] >= v}) >= Len(sizes)

\* C17: after every stage there are as many pages as were given, page k made
\* of blocks and characters of page k given in their order; the body sizes
\* returned are one per page, entry k the median of the sizes counted on
\* page k returned, 11.0 when none is counted
C17_PagesAligned ==
    /\ pc \in {"t_stripped", "t_removed", "t_merged", "t_done"} =>
          /\ Len(pages_t) = Len(pages)
          /\ \A k \in 1..Len(pages) :
                BlocksInOrder(pages_t[k].blocks, pages[k].blocks)
    /\ pc = "t_done" =>
          /\ Len(body_sizes) = Len(pages_t)
          /\ \A k \in 1..Len(pages_t) :
                LET sizes == SizesCounted(pages_t[k])
                IN  IF sizes = <<>> THEN body_sizes[k] = DefaultBody
                    ELSE IsMedianOf(body_sizes[k], sizes)

\* C17: three pages returned, one of them left without blocks after its
\* only line went as the header, one with the body size between its two
\* sizes and one with the fallback
C17_Witness ==
    /\ pc = "t_done"
    /\ Len(pages) = 3
    /\ header = <<"B">>
    /\ \E k \in 1..3 : pages[k].blocks # <<>> /\ pages_t[k].blocks = <<>>
                         /\ body_sizes[k] = DefaultBody
    /\ \E k \in 1..3 : body_sizes[k] = 580
    /\ \E k \in 1..3 : body_sizes[k] = 600

\* the lines of a block that hold a bullet glyph and nothing else
BulletOnlyLines(blk) ==
    {k \in 1..Len(blk.lines) : IsBulletOnly(_line_text(blk.lines[k]))}

\* out is the block given but for a drop cap and merged bullet lines: the
\* same characters in the same order, less the one letter of the drop cap
\* if a line of the block qualifies, on as many lines less at most one per
\* bullet line
OnlyDropCapAndBullets(out, given) ==
    LET o == BlockChars(out)
        g == BlockChars(given)
    IN  /\ IF \E k \in 1..Len(given.lines) : C7_Qualifies(given.lines[k])
           THEN IsSubseq(o, g) /\ Len(o) = Len(g) - 1
           ELSE o = g
        /\ Len(out.lines) <= Len(given.lines)
        /\ Len(given.lines) - Len(out.lines) <= Cardinality(BulletOnlyLines(given))

\* C18: with remove_headers_footers off, no header and no footer is
\* returned, and every page keeps its blocks, each with the characters it
\* was given but for a drop cap, on the lines it was given but for merged
\* bullet lines
C18_NothingRemovedWhenOff ==
    (~opts.remove_headers_footers /\ pc \in {"t_removed", "t_merged", "t_done"}) =>
        /\ header = None
        /\ footer = None
        /\ Len(pages_t) = Len(pages)
        /\ \A k \in 1..Len(pages) :
              /\ Len(pages_t[k].blocks) = Len(pages[k].blocks)
              /\ \A b \in 1..Len(pages[k].blocks) :
                    OnlyDropCapAndBullets(pages_t[k].blocks[b], pages[k].blocks[b])

\* C18: the option is off and three pages open with the same line B, which
\* every returned page still opens with; one of them had a bullet merged
C18_Witness ==
    /\ pc = "t_done"
    /\ ~opts.remove_headers_footers
    /\ Len(pages) = 3
    /\ \A k \in 1..3 :
          /\ pages[k].blocks # <<>>
          /\ _line_text(pages[k].blocks[1].lines[1]) = <<"B">>
          /\ _line_text(pages_t[k].blocks[1].lines[1]) = <<"B">>
    /\ \E k \in 1..3 :
          /\ Len(pages_t[k].blocks) = 2
          /\ _line_text(pages_t[k].blocks[2].lines[1]) = <<"BULLET", SP, "c">>

\* C18: the option is off and a page keeps its closing page number and the
\* rest of the line that lost its drop cap
C18_WitnessKept ==
    /\ pc = "t_done"
    /\ ~opts.remove_headers_footers
    /\ \E k \in 1..Len(pages) :
          /\ pages_t[k].blocks # <<>>
          /\ _line_text(pages_t[k].blocks[1].lines[Len(pages_t[k].blocks[1].lines)]) = <<"1">>
    /\ \E k \in 1..Len(pages) :
          /\ pages_t[k].blocks # <<>>
          /\ _line_text(pages_t[k].blocks[1].lines[1]) = <<"b", "e">>

----------------------------------------------------------------------------
(* remove_header_footer on one page with a given header and footer *)

\* most lines of the last block of the page
MaxBottomLines == 4

\* a page number, a dash rule with a page number, a page label, a word
BottomTexts == { <<"1">>, <<"-", SP, "1">>, <<"P", "a", "g", "e", SP, "1">>, <<"A">> }

\* the page: at most one line in a first block, then the last block
BottomPages ==
    { TextPage(<<first, last>>) :
        first \in SeqsUpTo(BottomTexts, 1),
        last \in SeqsUpTo(BottomTexts, MaxBottomLines) }

InitBottom ==
    /\ pc = "b0"
    /\ arg \in [page : BottomPages, header : {None, <<"A">>}, footer : {None, <<"1">>}]
    /\ res = None
    /\ PipelineIdle

RemoveOnPage ==
    /\ pc = "b0"
    /\ res' = remove_header_footer(<<arg.page>>, arg.header, arg.footer)[1]
    /\ pc' = "b1"
    /\ UNCHANGED <<pipeVars, arg>>

NextBottom == RemoveOnPage

SpecBottom == InitBottom /\ [][NextBottom]_vars

\* the texts of BottomTexts that read as footer noise
NoiseTexts == { <<"1">>, <<"-", SP, "1">>, <<"P", "a", "g", "e", SP, "1">> }

\* line k of block b of the page given is the header or the footer
IsEdgeLine(b, k) ==
    LET text == _line_text(arg.page.blocks[b].lines[k])
    IN  text = arg.header \/ text = arg.footer

\* line k of block b is in the last block, among its last 3 lines, and noise
IsBottomNoise(b, k) ==
    /\ b = Len(arg.page.blocks)
    /\ k > Len(arg.page.blocks[b].lines) - 3
    /\ _line_text(arg.page.blocks[b].lines[k]) \in NoiseTexts

\* the lines of block b that are neither an edge nor noise at the bottom
LinesLeft(b) ==
    LET lns == arg.page.blocks[b].lines
    IN  SelectFlagged(lns, [k \in 1..Len(lns) |-> ~IsEdgeLine(b, k) /\ ~IsBottomNoise(b, k)], 1)

\* C19: the lines returned are, block by block and in order, the lines that
\* are not the header or the footer and not noise among the last 3 lines
\* of the last block: noise anywhere else stays, and a block left without
\* lines is not returned
C19_NoiseOnlyAtBottom ==
    pc = "b1" =>
        res.blocks = SelectSeq([b \in 1..Len(arg.page.blocks) |-> Block(LinesLeft(b))],
                               LAMBDA blk : blk.lines # <<>>)

\* C19: a page number in the first block and a dash rule fourth from the
\* bottom of the last block stay, the page number and the page label among
\* the last 3 lines go
C19_Witness ==
    /\ pc = "b1"
    /\ arg.header = None /\ arg.footer = None
    /\ arg.page = TextPage(<< <<<<"1">>>>,
                              << <<"-", SP, "1">>, <<"1">>, <<"A">>,
                                 <<"P", "a", "g", "e", SP, "1">> >> >>)
    /\ res = TextPage(<< <<<<"1">>>>, << <<"-", SP, "1">>, <<"A">> >> >>)

----------------------------------------------------------------------------
(* render_document statement by statement: the page loop, the block loop, *)
(* the page rule and the progress callback, whose return value is any of  *)
(* None, True and False; res holds the block index, the value the last    *)
(* call returned and the log of blocks rendered and calls made            *)

\* most pages of a document rendered with a progress callback
MaxProgressPages == 3

ProgressOptions ==
    [remove_headers_footers : {FALSE},
     caps_to_headings       : {FALSE},
     defragment_short       : {FALSE},
     insert_page_breaks     : BOOLEAN,
     heading_size_ratio     : {13},
     orphan_max_len         : {45}]

\* pages of one block, of two blocks, of no block, of one empty block
ProgressPageShapes ==
    { TextPage(<< <<<<"a">>>> >>),
      TextPage(<< <<<<"a">>>>, <<<<"b">>>> >>),
      TextPage(<<>>),
      PageText(<<Block(<<>>)>>) }

\* what a callback may return
ReturnValues == {"None", "True", "False"}

InitProgress ==
    /\ pc = "p_page"
    /\ pages_t \in SeqsUpTo(ProgressPageShapes, MaxProgressPages)
    /\ opts \in ProgressOptions
    /\ body_sizes = <<>>
    /\ arg \in [progress_cb : BOOLEAN]
    /\ calls = <<>>
    /\ md_lines = <<>>
    /\ page_i = 0
    /\ md = None
    /\ res = [blk |-> 0, ret |-> "None", log |-> <<>>]
    /\ pages = None /\ header = None /\ footer = None

\* for i, page in enumerate(pages): the next page, if there is one
P_EnterPage ==
    /\ pc = "p_page"
    /\ page_i < Len(pages_t)
    /\ res' = [res EXCEPT !.blk = 0]
    /\ pc' = "p_blocks"
    /\ UNCHANGED <<pages, opts, pages_t, header, footer, body_sizes,
                   md_lines, page_i, md, calls, arg>>

\* for blk in page.blocks: skip an empty block, extend md_lines otherwise
P_Block ==
    /\ pc = "p_blocks"
    /\ res.blk < Len(pages_t[page_i + 1].blocks)
    /\ LET blk == pages_t[page_i + 1].blocks[res.blk + 1]
       IN  md_lines' = md_lines \o
              (IF is_empty(blk) THEN <<>>
               ELSE _block_to_lines(blk, BodyFor(body_sizes, page_i),
                                    opts.caps_to_headings, opts.heading_size_ratio))
    /\ res' = [res EXCEPT !.blk = @ + 1, !.log = Append(@, <<"block", page_i + 1>>)]
    /\ UNCHANGED <<pc, pages, opts, pages_t, header, footer, body_sizes,
                   page_i, md, calls, arg>>

\* if options.insert_page_breaks and i < total - 1: the page rule
P_PageRule ==
    /\ pc = "p_blocks"
    /\ res.blk = Len(pages_t[page_i + 1].blocks)
    /\ md_lines' = md_lines \o
          (IF opts.insert_page_breaks /\ page_i < Len(pages_t) - 1
           THEN <<PageRule, <<>>>> ELSE <<>>)
    /\ pc' = "p_cb"
    /\ UNCHANGED <<pages, opts, pages_t, header, footer, body_sizes,
                   page_i, md, calls, arg, res>>

\* a plausible slip: a callback that returns False ends the loop
P_CallbackCancels ==
    /\ pc = "p_cb"
    /\ IF arg.progress_cb
       THEN \E ret \in ReturnValues :
              /\ calls' = Append(calls, <<page_i + 1, Len(pages_t)>>)
              /\ res' = [res EXCEPT !.ret = ret,
                                    !.log = Append(@, <<"call", page_i + 1>>)]
              /\ page_i' = IF ret = "False" THEN Len(pages_t) ELSE page_i + 1
       ELSE /\ page_i' = page_i + 1
            /\ UNCHANGED <<calls, res>>
    /\ pc' = "p_page"
    /\ UNCHANGED <<pages, opts, pages_t, header, footer, body_sizes, md_lines, md, arg>>

\* if progress_cb: progress_cb(i + 1, total); then the next turn of the loop
P_Callback ==
    /\ pc = "p_cb"
    /\ IF arg.progress_cb
       THEN \E ret \in ReturnValues :
              /\ calls' = Append(calls, <<page_i + 1, Len(pages_t)>>)
              /\ res' = [res EXCEPT !.ret = ret,
                                    !.log = Append(@, <<"call", page_i + 1>>)]
       ELSE UNCHANGED <<calls, res>>
    /\ page_i' = page_i + 1
    /\ pc' = "p_page"
    /\ UNCHANGED <<pages, opts, pages_t, header, footer, body_sizes, md_lines, md, arg>>

\* after the loop: join, collapse, strip, the substitutions; return md
P_Finish ==
    /\ pc = "p_page"
    /\ page_i = Len(pages_t)
    /\ md' = FinishDocument(md_lines, opts)
    /\ pc' = "p_done"
    /\ UNCHANGED <<pages, opts, pages_t, header, footer, body_sizes,
                   md_lines, page_i, calls, arg, res>>

NextProgress == P_EnterPage \/ P_Block \/ P_PageRule \/ P_Callback \/ P_Finish

SpecProgress == InitProgress /\ [][NextProgress]_vars

\* the positions of the log that record a block of page p
BlocksLogged(p) == {a \in 1..Len(res.log) : res.log[a] = <<"block", p>>}

\* the positions of the log that record the call for page p
CallsLogged(p) == {a \in 1..Len(res.log) : res.log[a] = <<"call", p>>}

\* the lines of pages 1..n as the page loop leaves them
RECURSIVE LinesOfPages(_)
LinesOfPages(n) ==
    IF n = 0 THEN <<>>
    ELSE LinesOfPages(n - 1)
         \o PageBlockLines(pages_t[n].blocks, 1, BodyFor(body_sizes, n - 1), opts)
         \o (IF opts.insert_page_breaks /\ n < Len(pages_t)
             THEN <<PageRule, <<>>>> ELSE <<>>)

\* with a callback: the calls made so far are (1, N), (2, N), ... one per
\* page gone through; the call for page p is logged once, after every block
\* of page p and before every block of a later page; whatever the calls
\* returned, the document returned is that of all N pages after N calls
ProgressInOrder ==
    /\ arg.progress_cb =>
          /\ calls = [k \in 1..Len(calls) |-> <<k, Len(pages_t)>>]
          /\ Len(calls) = page_i
          /\ \A p \in 1..Len(calls) :
                /\ Cardinality(CallsLogged(p)) = 1
                /\ Cardinality(BlocksLogged(p)) = Len(pages_t[p].blocks)
                /\ \A c \in CallsLogged(p) :
                      /\ \A a \in BlocksLogged(p) : a < c
                      /\ \A q \in (p + 1)..Len(pages_t) : \A a \in BlocksLogged(q) : c < a
    /\ ~arg.progress_cb => calls = <<>>
    /\ pc = "p_done" =>
          /\ page_i = Len(pages_t)
          /\ md = FinishDocument(LinesOfPages(Len(pages_t)), opts)

\* a statement of render_document is ready to run: the loop is never held
\* up, whatever the last call returned
ProgressReady ==
    \/ pc = "p_page" /\ page_i <= Len(pages_t)
    \/ pc = "p_blocks" /\ res.blk <= Len(pages_t[page_i + 1].blocks)
    \/ pc = "p_cb" /\ page_i < Len(pages_t)

=============================================================================
